---- MODULE Spec2Model ----
(***************************************************************************)
(* A model of thinagents' conversation engine: Agent.run of                *)
(* thinagents/core/agent.py, the loop that alternates model calls with     *)
(* tool dispatch (sequentially or in a per-batch thread pool) and with the *)
(* structured-output correction round trip, under a step budget.           *)
(***************************************************************************)
EXTENDS Integers, Sequences, FiniteSets, TLC

\* ------------------------------------------------------------------ bounds
\* The largest step budget (Agent.max_steps) a run is started with.
MaxSteps == 2
\* The most tool calls the model requests over one run (all batches together).
MaxToolCalls == 2
\* The most tools, and the most sub-agents, an Agent is constructed with.
MaxTools == 2
\* The most load_tools calls made on one MCPManager.
MaxLoads == 2
\* The last reading of the clock (time.time()), which starts at 0.
MaxTime == 2
MaxCalls == 2
MaxConfigs == 2
MaxFields == 2
MaxNesting == 1
MaxAgentRuns == 2
MaxIdLen == 2
MaxMessages == 2

\* --------------------------------------------------------------- the state
VARIABLES
    max_steps,                   \* self.max_steps
    response_format_model_type,  \* TRUE iff a response_format is configured
    concurrent_tool_execution,   \* self.concurrent_tool_execution
    pc,                          \* where Agent.run is
    steps,                       \* the local `steps`
    messages,                    \* the local `messages` (the transcript)
    finish_reason,               \* the local `finish_reason` while it is live, else ""
    message,                     \* <<>> or <<the local `message`>> while it is live
    response_id,                 \* <<>> while the local is unbound, else <<n>>
    futures,                     \* the pool's futures of the current batch
    tool_call_outputs,           \* the local `tool_call_outputs`
    result,                      \* <<>> or <<the ThinagentResponse returned>>
    completions,                 \* log of the litellm_completion calls made
    issued,                      \* tool calls requested by the model so far
    invoked,                     \* ids of the requests whose tool was invoked
    tools,                       \* the `tools` argument of Agent.__init__
    sub_agents,                  \* the names of the `sub_agents` argument
    constructed,                 \* "no", "yes", or "raised" had __init__ raised
    self_tool_schemas,           \* self.tool_schemas: the schemas' names
    self_tool_maps,              \* self.tool_maps: name -> tool
    _servers,                    \* MCPManager._servers: the servers' ids
    _tool_cache,                 \* <<>> for None, else <<(schemas, mappings)>>
    _failure_counts,             \* MCPManager._failure_counts
    _skip_until,                 \* MCPManager._skip_until
    _failure_threshold,          \* MCPManager._failure_threshold
    _backoff_seconds,            \* MCPManager._backoff_seconds
    clock,                       \* what time.time() returns
    loads,                       \* load_tools calls made so far
    task,                        \* the load_tools coroutine of each asyncio task
    recorded,                    \* connection failures logged per server since its last load
    connections,                 \* the connections that are open
    max_parallel_calls,          \* the max_parallel_calls the manager was built with
    _semaphore,                  \* the value of MCPManager._semaphore
    waiters,                     \* the queue of the semaphore's waiters
    call,                        \* the tool_wrapper coroutine of each invoking task
    invocations,                 \* tool_wrapper calls made so far
    normalization,               \* the normalize_mcp_servers call of the caller
    py_type,                     \* the dataclass given to map_type_to_schema
    compiled,                    \* what map_type_to_schema returned for it
    workflow,                    \* the fields of a BaseWorkflow and its agents registry
    activation,                  \* the execute, run_stream or arun call being made
    files,                       \* the files of FileMemory's storage_dir
    added                        \* messages added under each conversation id since its clear

vars == << max_steps, response_format_model_type, concurrent_tool_execution,
           pc, steps, messages, finish_reason, message, response_id, futures,
           tool_call_outputs, result, completions, issued, invoked,
           tools, sub_agents, constructed, self_tool_schemas, self_tool_maps,
           _servers, _tool_cache, _failure_counts, _skip_until,
           _failure_threshold, _backoff_seconds, clock, loads, task,
           recorded, connections, max_parallel_calls, _semaphore, waiters, call,
           invocations, normalization, py_type, compiled,
           workflow, activation, files, added >>

\* The state of the collaborators of the agent: a workflow and a file memory.
collaborators == << workflow, activation, files, added >>

\* The state of the calls of the module-level functions normalize_mcp_servers
\* and map_type_to_schema, and that of the collaborators.
functions == << normalization, py_type, compiled, collaborators >>

\* The state of Agent.run.
run_vars == << max_steps, response_format_model_type, concurrent_tool_execution,
               pc, steps, messages, finish_reason, message, response_id, futures,
               tool_call_outputs, result, completions, issued, invoked >>

\* The state of Agent.__init__'s tool registration.
registry == << tools, sub_agents, constructed, self_tool_schemas, self_tool_maps >>

\* The semaphore of an MCPManager and the tool_wrapper calls.
throttle == << max_parallel_calls, _semaphore, waiters, call, invocations >>

\* The state of an MCPManager, of the clock, of the load_tools calls and of
\* the tool_wrapper calls.
remote == << _servers, _tool_cache, _failure_counts, _skip_until,
             _failure_threshold, _backoff_seconds, clock, loads, task,
             recorded, connections, throttle >>

config == << max_steps, response_format_model_type, concurrent_tool_execution >>

\* ------------------------------------------------- the tools and the model
\* Agent.tool_maps: the names generate_tool_schemas registered.
tool_maps == {"add", "echo", "boom"}

\* The argument texts the model sends: a JSON object, and a truncated one.
ValidArguments == "{\"a\": 2, \"b\": 3}"
BadArguments == "{\"a\": 2,"

\* json.loads(tc.function.arguments) succeeds or raises.
JsonLoadsRaises(arguments) == arguments # ValidArguments

\* What the registered tools do when called: add returns the int 5, echo the
\* str "hi", boom raises.
ToolRaises(name) == name = "boom"

ToolReturn(name) ==
    IF name = "add" THEN [type |-> "int", int |-> 5, str |-> ""]
    ELSE [type |-> "str", int |-> 0, str |-> "hi"]

\* json.dumps of a tool's return value.
JsonDumps(value) ==
    IF value.type = "int" THEN ToString(value.int)
    ELSE "\"" \o value.str \o "\""

\* json.dumps({"error": str(e), "message": message})
ErrorPayload(error, text) ==
    "{\"error\": \"" \o error \o "\", \"message\": \"" \o text \o "\"}"

\* Agent._execute_tool: a lookup in tool_maps, ValueError when it misses,
\* else the tool's call; `raised` tells a raise, `error` is str(e).
ExecuteTool(tool_name) ==
    IF tool_name \notin tool_maps
    THEN [raised |-> TRUE, error |-> "Tool '" \o tool_name \o "' not found.",
          value |-> ToolReturn(tool_name)]
    ELSE IF ToolRaises(tool_name)
    THEN [raised |-> TRUE, error |-> "boom failed",
          value |-> ToolReturn(tool_name)]
    ELSE [raised |-> FALSE, error |-> "", value |-> ToolReturn(tool_name)]

\* As ContentForLLM, but with json.dumps applied to a str result too.
ContentForLLMAlwaysDumps(value) == JsonDumps(value)

\* The str / json.dumps choice of content_for_llm for a regular tool.
ContentForLLM(value) ==
    IF value.type = "str" THEN value.str ELSE JsonDumps(value)

\* _process_individual_tool_call(tc): the tool-role message of one request.
_process_individual_tool_call(tc) ==
    LET tool_call_name == tc.function.name
        tool_call_id == tc.id
    IN  IF JsonLoadsRaises(tc.function.arguments)
        THEN [tool_call_id |-> tool_call_id, role |-> "tool",
              name |-> tool_call_name,
              content |-> ErrorPayload("Expecting property name",
                                       "Failed to parse arguments")]
        ELSE LET r == ExecuteTool(tool_call_name)
             IN  IF r.raised
                 THEN [tool_call_id |-> tool_call_id, role |-> "tool",
                       name |-> tool_call_name,
                       content |-> ErrorPayload(r.error, "Tool execution failed")]
                 ELSE [tool_call_id |-> tool_call_id, role |-> "tool",
                       name |-> tool_call_name,
                       content |-> ContentForLLM(r.value)]

\* As Invocations, but with the tool looked up and called before json.loads
\* has accepted the arguments.
InvocationsBeforeParse(tc) ==
    IF tc.function.name \in tool_maps THEN {tc.id} ELSE {}

\* The requests whose processing calls a tool: json.loads returned, so the
\* early return of its except branch was not taken, and _execute_tool found
\* the name in tool_maps and called tool(**tool_args).
Invocations(tc) ==
    IF ~JsonLoadsRaises(tc.function.arguments) /\ tc.function.name \in tool_maps
    THEN {tc.id} ELSE {}

\* The function calls the model may request: a registered tool with good
\* arguments, one with bad arguments, a raising tool, an unregistered name.
FunctionCalls ==
    { [name |-> n, arguments |-> ValidArguments] :
          n \in {"add", "echo", "boom", "ghost"} }
    \cup { [name |-> "add", arguments |-> BadArguments] }

\* The batches of k requests whose ids continue after `n` issued ones.
Batches(n, k) ==
    { [i \in 1..k |-> [id |-> n + i, function |-> f[i]]] :
          f \in [1..k -> FunctionCalls] }

\* The message contents of a final reply: free text, and two JSON documents
\* that satisfy the response_format.
Contents == {"hello", "{\"x\": 1}", "{\"x\": 2}"}

\* response_format.model_validate_json(raw): raises on anything but a
\* document of the contract, else builds the model object.
ValidationRaises(raw) == raw \notin {"{\"x\": 1}", "{\"x\": 2}"}

ModelValidateJson(raw) == IF raw = "{\"x\": 1}" THEN "Out(x=1)" ELSE "Out(x=2)"

\* The replies litellm_completion may give to a main-loop call when the model
\* has requested n tool calls before.
Replies(n) ==
    { [finish_reason |-> "stop", content |-> c, tool_calls |-> << >>] :
          c \in Contents }
    \cup { [finish_reason |-> fr, content |-> "", tool_calls |-> << >>] :
          fr \in {"tool_calls", "length"} }
    \cup UNION { { [finish_reason |-> fr, content |-> "", tool_calls |-> b] :
                       fr \in {"tool_calls", "stop"}, b \in Batches(n, k) } :
                 k \in 1..(MaxToolCalls - n) }

\* response.choices[0].message
Message(r) == [role |-> "assistant", content |-> r.content, tool_calls |-> r.tool_calls]

\* ------------------------------------------------------ Agent.run's tests
\* As LoopCondition, but with <= for <.
LoopConditionInclusive(s, m) == s <= m

\* while steps < self.max_steps
LoopCondition(s, m) == s < m

\* if finish_reason == "stop" and not tool_calls
IsFinalStop(fr, tool_calls) == fr = "stop" /\ tool_calls = << >>

\* if finish_reason == "tool_calls" or tool_calls
IsToolTurn(fr, tool_calls) == fr = "tool_calls" \/ tool_calls # << >>

\* if self.concurrent_tool_execution and len(tool_calls) > 1
UseThreadPool(concurrent, tool_calls) == concurrent /\ Len(tool_calls) > 1

\* The correction request appended after a failed validation.
CorrectionMessage(raw) ==
    [role |-> "user",
     content |-> "The JSON is invalid. Please fix the JSON and return it. Returned JSON: "
                 \o raw]

\* msg_dict: the public attributes of the assistant message of a tool turn.
MsgDict(m) == [role |-> m.role, content |-> m.content, tool_calls |-> m.tool_calls]

\* As FinalContent, but validating whether or not a response_format is set.
FinalContentAlwaysParsed(response_format, raw) == ModelValidateJson(raw)

\* final_content: the validated model object under a response_format, else
\* the raw content.
FinalContent(response_format, raw) ==
    IF response_format THEN ModelValidateJson(raw) ELSE raw

\* content_type_to_return
ContentTypeToReturn(response_format) == IF response_format THEN "Out" ELSE "str"

\* As CorrectionCall, but passing the tool schemas as the main-loop call does.
CorrectionCallWithTools(c) ==
    [call |-> "correction", tools |-> TRUE, final |-> FALSE, content |-> c]

\* The correction call as logged: litellm_completion without tools and
\* without response_format, answered with content c.
CorrectionCall(c) ==
    [call |-> "correction", tools |-> FALSE, final |-> FALSE, content |-> c]

\* The main-loop call as logged: litellm_completion with tools=tool_schemas,
\* answered with reply r.
MainCall(r) ==
    [call |-> "main", tools |-> TRUE,
     final |-> r.finish_reason = "stop" /\ r.tool_calls = << >>,
     content |-> r.content]

\* The response returned on a final stop.
FinalResponse(final_content, content_type_to_return, rid, fr) ==
    [content |-> final_content, content_type |-> content_type_to_return,
     response_id |-> rid, finish_reason |-> fr]

\* The response returned when the loop ends on the step budget.
MaxStepsResponse(rid) ==
    [content |-> "Max steps reached without final answer.",
     content_type |-> "str", response_id |-> rid,
     finish_reason |-> "max_steps_reached"]

\* ------------------------------------------------------ tool registration
\* The sequences over S of length at most n.
SeqsUpTo(S, n) == UNION { [1..k -> S] : k \in 0..n }

\* The callables an Agent may be given as tools: `name` is the callable's
\* __name__, `fn` tells callables of one name apart.
LocalTools ==
    { [name |-> "add", fn |-> "add#1"], [name |-> "add", fn |-> "add#2"],
      [name |-> "echo", fn |-> "echo#1"],
      [name |-> "subagent_helper", fn |-> "subagent_helper#1"] }

\* The names of the sub-agents an Agent may be given.
SubAgentNames == {"Helper", "helper", "My Agent"}

\* safe_name = sa.name.lower().strip().replace(" ", "_")
SafeName(name) ==
    CASE name = "Helper" -> "helper"
      [] name = "helper" -> "helper"
      [] name = "My Agent" -> "my_agent"

\* _make_sub_agent_tool(sa): the delegate, named subagent_<safe_name>.
SubAgentTool(sa) ==
    [name |-> "subagent_" \o SafeName(sa), fn |-> "delegate to " \o sa]

\* combined_tools = (tools or []) + sub_agent_tools
CombinedTools(ts, sas) == ts \o [i \in DOMAIN sas |-> SubAgentTool(sas[i])]

\* tool.tool_schema(): the schema carries the callable's __name__.
ToolSchema(t) == [type |-> "function", name |-> t.name]

\* A dict before any key is set.
EmptyDict == [k \in {} |-> k]

\* d[key] = value
SetItem(d, key, value) ==
    [k \in DOMAIN d \cup {key} |-> IF k = key THEN value ELSE d[k]]

\* generate_tool_schemas(tools): for each tool, in order, its schema is
\* appended and tool_maps[tool.__name__] is assigned.
RECURSIVE generate_tool_schemas(_)
generate_tool_schemas(ts) ==
    IF ts = << >>
    THEN [tool_schemas |-> << >>, tool_maps |-> EmptyDict]
    ELSE LET before == generate_tool_schemas(SubSeq(ts, 1, Len(ts) - 1))
             tool == ts[Len(ts)]
         IN  [tool_schemas |-> Append(before.tool_schemas, ToolSchema(tool)),
              tool_maps |-> SetItem(before.tool_maps, tool.name, tool)]

\* ---------------------------------------------------- remote tool manager
\* The ids of the servers a manager may be given (normalize_mcp_servers
\* names each server).
Servers == {"s1", "s2"}

\* What load_mcp_tools may return for a server: its tools' names, in order.
\* Both servers expose a tool called fetch; s2 may also leave it out.
Listings(s) ==
    IF s = "s1" THEN { << "search", "fetch" >> }
    ELSE { << "lookup" >>, << "lookup", "fetch" >> }

\* The failure_threshold and backoff_seconds a manager may be built with.
Thresholds == {1, 2}
Backoffs == {1, 2}

\* The asyncio tasks that call load_tools on the one manager.
Tasks == {"t1", "t2"}

\* d.get(key, default)
Get(d, key, default) == IF key \in DOMAIN d THEN d[key] ELSE default

\* As Pop, but leaving the key in place.
PopNothing(d, key) == d

\* d.pop(key, None)
Pop(d, key) == [k \in DOMAIN d \ {key} |-> d[k]]

\* As InCooldown, but with the comparison turned round.
InCooldownInverted(s, now) ==
    /\ s \in DOMAIN _skip_until
    /\ _skip_until[s] # 0
    /\ now > _skip_until[s]

\* skip_until_ts = self._skip_until.get(server_id);
\* skip_until_ts and now < skip_until_ts
InCooldown(s, now) ==
    /\ s \in DOMAIN _skip_until
    /\ _skip_until[s] # 0
    /\ now < _skip_until[s]

\* As AtThreshold, but only for the failure that reaches the threshold.
AtThresholdExact(count) == count = _failure_threshold

\* As AtThreshold, but with a strict comparison.
AtThresholdStrict(count) == count > _failure_threshold

\* if self._failure_counts[server_id] >= self._failure_threshold
AtThreshold(count) == count >= _failure_threshold

\* for tool in tools: the schema is appended, then the name is looked up in
\* all_mappings: a ValueError when it is there, else the wrapper is stored.
\* `raised` tells that the ValueError left the loop.
RECURSIVE WrapTools(_, _, _, _)
WrapTools(schemas, mappings, s, listing) ==
    IF listing = << >>
    THEN [all_schemas |-> schemas, all_mappings |-> mappings, raised |-> FALSE]
    ELSE LET original_name == Head(listing)
             appended == Append(schemas, [name |-> original_name, server |-> s])
         IN  IF original_name \in DOMAIN mappings
             THEN [all_schemas |-> appended, all_mappings |-> mappings,
                   raised |-> TRUE]
             ELSE WrapTools(appended, SetItem(mappings, original_name, s), s,
                            Tail(listing))

\* A task that is not in load_tools. Besides the coroutine's position and
\* locals a task records what its call did: the servers it began to connect
\* to, those whose connection failed, those whose tools it loaded, whether
\* the duplicate-name ValueError was raised, and the servers that, when the
\* call was made, had reached the threshold and were past their window.
NoCall ==
    [pc |-> "idle", index |-> 0, all_schemas |-> << >>, all_mappings |-> EmptyDict,
     result |-> << >>, attempted |-> {}, failed |-> {}, loaded |-> {},
     collided |-> FALSE, due |-> {}]

\* As Connection, but one connection per server, shared by the operations.
ConnectionPooled(op, s) == [by |-> "pool", to |-> s]

\* The connection and session an operation (a load_tools call's visit of a
\* server, or a tool_wrapper call) opens to a server: connection_cm and
\* ClientSession make new ones each time they are entered.
Connection(op, s) == [by |-> op, to |-> s]

\* The tasks that call the wrappers load_tools returned.
Invokers == {"c1", "c2"}

\* A task that is not in a tool_wrapper: `name` is the tool the wrapper was
\* made for and `server` the server whose config it was made with.
NoInvocation == [pc |-> "idle", name |-> "", server |-> ""]

\* asyncio.Semaphore(max_parallel_calls) of a manager built with
\* max_parallel_calls = 1, and no wrapper called.
ThrottleIdle ==
    /\ max_parallel_calls = 1
    /\ _semaphore = 1
    /\ waiters = << >>
    /\ call = [c \in Invokers |-> NoInvocation]
    /\ invocations = 0

\* normalize_mcp_servers has not been called.
NotNormalizing ==
    [pc |-> "idle", servers |-> << >>, index |-> 0, normalized |-> << >>,
     result |-> << >>]

\* Python's None.
None == "None"

\* The fields of the agents registry of the model's workflow.
AgentFields == {"researcher", "writer"}

\* BaseWorkflow.__init__, with the subclass's `agents` registry holding an
\* Agent in every field; the attribute _original_agents_data does not
\* exist (<< >>).
NewWorkflow ==
    [_agents |-> None,
     _agents_setup |-> FALSE,
     _original_agents_data |-> << >>,
     mode |-> "sync",
     _pending_chunks |-> << >>,
     agents |-> [f \in AgentFields |-> "Agent"]]

\* No method of the workflow has been called.
NoActivation ==
    [method |-> "none", pc |-> "idle", calls |-> << >>, yielded |-> 0]

\* A workflow just built, and an empty storage_dir.
CollaboratorsIdle ==
    /\ workflow = NewWorkflow
    /\ activation = NoActivation
    /\ files = EmptyDict
    /\ added = EmptyDict

\* Neither normalize_mcp_servers nor map_type_to_schema has been called.
FunctionsIdle ==
    /\ normalization = NotNormalizing
    /\ py_type = << >>
    /\ compiled = << >>
    /\ CollaboratorsIdle

\* MCPManager.__init__ with the arguments of the model's fixed manager; no
\* load_tools call is made.
RemoteIdle ==
    /\ _servers = << >>
    /\ _tool_cache = << >>
    /\ _failure_counts = EmptyDict
    /\ _skip_until = EmptyDict
    /\ _failure_threshold = 1
    /\ _backoff_seconds = 1
    /\ clock = 0
    /\ loads = 0
    /\ task = [p \in Tasks |-> NoCall]
    /\ recorded = [s \in Servers |-> 0]
    /\ connections = {}
    /\ ThrottleIdle

\* No Agent is under construction: the registration state of a model that
\* follows Agent.run with its registered tools fixed.
RegistryIdle ==
    /\ tools = << >>
    /\ sub_agents = << >>
    /\ constructed = "yes"
    /\ self_tool_schemas = << >>
    /\ self_tool_maps = EmptyDict

\* ----------------------------------------------------------------- Init
Init ==
    /\ max_steps \in 0..MaxSteps
    /\ response_format_model_type \in BOOLEAN
    /\ concurrent_tool_execution \in BOOLEAN
    /\ pc = "idle"
    /\ steps = 0
    /\ messages = << >>
    /\ finish_reason = ""
    /\ message = << >>
    /\ response_id = << >>
    /\ futures = << >>
    /\ tool_call_outputs = << >>
    /\ result = << >>
    /\ completions = << >>
    /\ issued = 0
    /\ invoked = {}
    /\ RegistryIdle
    /\ RemoteIdle
    /\ FunctionsIdle

\* -------------------------------------------------------------- actions
\* Agent.run up to the loop: steps = 0, the system and the user message.
Run ==
    /\ pc = "idle"
    /\ steps' = 0
    /\ messages' = << [role |-> "system", content |-> "system_prompt"],
                      [role |-> "user", content |-> "input"] >>
    /\ pc' = "while"
    /\ UNCHANGED << functions, remote, registry, config, invoked, finish_reason, message, response_id, futures,
                    tool_call_outputs, result, completions, issued >>

\* The loop test holds: the main-loop litellm_completion call and its reply.
CallModel ==
    /\ pc = "while"
    /\ LoopCondition(steps, max_steps)
    /\ \E r \in Replies(issued) :
          /\ finish_reason' = r.finish_reason
          /\ message' = << Message(r) >>
          /\ completions' = Append(completions, MainCall(r))
          /\ issued' = issued + Len(r.tool_calls)
    /\ response_id' = << Len(completions) + 1 >>
    /\ pc' = "reply"
    /\ UNCHANGED << functions, remote, registry, config, invoked, steps, messages, futures, tool_call_outputs, result >>

\* As ReturnFinal, but with the step counted before the return.
ReturnFinalCountsStep ==
    /\ pc = "reply"
    /\ IsFinalStop(finish_reason, message[1].tool_calls)
    /\ response_format_model_type => ~ValidationRaises(message[1].content)
    /\ result' = << FinalResponse(
                        FinalContent(response_format_model_type, message[1].content),
                        ContentTypeToReturn(response_format_model_type),
                        response_id, finish_reason) >>
    /\ steps' = steps + 1
    /\ pc' = "done"
    /\ UNCHANGED << functions, remote, registry, config, invoked, messages, finish_reason, message, response_id,
                    futures, tool_call_outputs, completions, issued >>

\* A stop without tool calls that needs no validation or passes it: return.
ReturnFinal ==
    /\ pc = "reply"
    /\ IsFinalStop(finish_reason, message[1].tool_calls)
    /\ response_format_model_type => ~ValidationRaises(message[1].content)
    /\ result' = << FinalResponse(
                        FinalContent(response_format_model_type, message[1].content),
                        ContentTypeToReturn(response_format_model_type),
                        response_id, finish_reason) >>
    /\ pc' = "done"
    /\ UNCHANGED << functions, remote, registry, config, invoked, steps, messages, finish_reason, message, response_id,
                    futures, tool_call_outputs, completions, issued >>

\* A stop without tool calls that fails validation: the correction request,
\* a second completion call without tools, its reply appended, one step.
CorrectionRetry ==
    /\ pc = "reply"
    /\ IsFinalStop(finish_reason, message[1].tool_calls)
    /\ response_format_model_type
    /\ ValidationRaises(message[1].content)
    /\ \E c \in Contents :
          /\ messages' = messages \o << CorrectionMessage(message[1].content),
                                        [role |-> "assistant", content |-> c] >>
          /\ completions' = Append(completions, CorrectionCall(c))
    /\ steps' = steps + 1
    /\ finish_reason' = ""
    /\ message' = << >>
    /\ pc' = "while"
    /\ UNCHANGED << functions, remote, registry, config, invoked, response_id, futures, tool_call_outputs, result, issued >>

\* A tool turn begins: nothing to run, a sequential pass, or a pool with one
\* submitted future per request. finish_reason is not read again.
Dispatch ==
    /\ pc = "reply"
    /\ ~IsFinalStop(finish_reason, message[1].tool_calls)
    /\ IsToolTurn(finish_reason, message[1].tool_calls)
    /\ LET tool_calls == message[1].tool_calls
       IN  /\ tool_call_outputs' = << >>
           /\ IF tool_calls = << >>
              THEN pc' = "append" /\ futures' = << >>
              ELSE IF UseThreadPool(concurrent_tool_execution, tool_calls)
              THEN /\ pc' = "pool"
                   /\ futures' = [i \in 1..Len(tool_calls) |->
                                     [state |-> "pending", result |-> << >>]]
              ELSE pc' = "sequential" /\ futures' = << >>
    /\ finish_reason' = ""
    /\ UNCHANGED << functions, remote, registry, config, invoked, steps, messages, message, response_id, result,
                    completions, issued >>

\* for tc in tool_calls: tool_call_outputs.append(...), one request a step.
SequentialCall ==
    /\ pc = "sequential"
    /\ LET tool_calls == message[1].tool_calls
           tc == tool_calls[Len(tool_call_outputs) + 1]
       IN  /\ tool_call_outputs' =
                  Append(tool_call_outputs, _process_individual_tool_call(tc))
           /\ pc' = IF Len(tool_call_outputs) + 1 = Len(tool_calls)
                    THEN "append" ELSE "sequential"
           /\ invoked' = invoked \cup Invocations(tc)
    /\ UNCHANGED << functions, remote, registry, config, steps, messages, finish_reason, message, response_id,
                    futures, result, completions, issued >>

\* As MaxWorkers, but with a pool one worker short of the batch.
MaxWorkersOneShort(tool_calls) == Len(tool_calls) - 1

\* ThreadPoolExecutor(max_workers=len(tool_calls))
MaxWorkers(tool_calls) == Len(tool_calls)

\* executor.submit queues the requests in order and a worker takes the next
\* one when it is free: request i has a worker once fewer than max_workers
\* of the requests submitted before it are unfinished.
HasWorker(i) ==
    Cardinality({ j \in 1..(i - 1) : futures[j].state = "pending" })
        < MaxWorkers(message[1].tool_calls)

\* As WorkerRun, but with every worker reading the loop's last request.
WorkerRunLastRequest(i) ==
    /\ pc = "pool"
    /\ futures[i].state = "pending"
    /\ HasWorker(i)
    /\ futures' = [futures EXCEPT ![i] =
           [state |-> "done",
            result |-> << _process_individual_tool_call(
                              message[1].tool_calls[Len(message[1].tool_calls)]) >>]]
    /\ invoked' = invoked \cup
                      Invocations(message[1].tool_calls[Len(message[1].tool_calls)])
    /\ UNCHANGED << functions, remote, registry, config, pc, steps, messages, finish_reason, message,
                    response_id, tool_call_outputs, result, completions, issued >>

\* A pool worker runs _process_individual_tool_call for its request.
WorkerRun(i) ==
    /\ pc = "pool"
    /\ futures[i].state = "pending"
    /\ HasWorker(i)
    /\ futures' = [futures EXCEPT ![i] =
           [state |-> "done",
            result |-> << _process_individual_tool_call(message[1].tool_calls[i]) >>]]
    /\ invoked' = invoked \cup Invocations(message[1].tool_calls[i])
    /\ UNCHANGED << functions, remote, registry, config, pc, steps, messages, finish_reason, message,
                    response_id, tool_call_outputs, result, completions, issued >>

\* for future in as_completed(futures): a finished future is yielded, once,
\* and its result appended. _process_individual_tool_call catches every
\* Exception itself, so future.result() returns and the except branch of the
\* loop is not taken.
AsCompleted(i) ==
    /\ pc = "pool"
    /\ futures[i].state = "done"
    /\ tool_call_outputs' = Append(tool_call_outputs, futures[i].result[1])
    /\ futures' = [futures EXCEPT ![i].state = "yielded"]
    /\ UNCHANGED << functions, remote, registry, config, invoked, pc, steps, messages, finish_reason, message,
                    response_id, result, completions, issued >>

\* The `with ThreadPoolExecutor` block ends: every future was yielded, the
\* pool is shut down.
ExecutorExit ==
    /\ pc = "pool"
    /\ \A i \in DOMAIN futures : futures[i].state = "yielded"
    /\ futures' = << >>
    /\ pc' = "append"
    /\ UNCHANGED << functions, remote, registry, config, invoked, steps, messages, finish_reason, message, response_id,
                    tool_call_outputs, result, completions, issued >>

\* As AppendTurn, but with the tool results put ahead of the assistant
\* message that requested them.
AppendTurnOutputsFirst ==
    /\ pc = "append"
    /\ messages' = Append(messages \o tool_call_outputs, MsgDict(message[1]))
    /\ steps' = steps + 1
    /\ message' = << >>
    /\ tool_call_outputs' = << >>
    /\ pc' = "while"
    /\ UNCHANGED << functions, remote, registry, config, invoked, finish_reason, response_id, futures, result,
                    completions, issued >>

\* As AppendTurn, but without the `continue`: the loop's trailing
\* steps += 1 runs too.
AppendTurnNoContinue ==
    /\ pc = "append"
    /\ messages' = Append(messages, MsgDict(message[1])) \o tool_call_outputs
    /\ steps' = steps + 2
    /\ message' = << >>
    /\ tool_call_outputs' = << >>
    /\ pc' = "while"
    /\ UNCHANGED << functions, remote, registry, config, invoked, finish_reason, response_id, futures, result,
                    completions, issued >>

\* messages.append(msg_dict); messages.extend(tool_call_outputs); steps += 1
AppendTurn ==
    /\ pc = "append"
    /\ messages' = Append(messages, MsgDict(message[1])) \o tool_call_outputs
    /\ steps' = steps + 1
    /\ message' = << >>
    /\ tool_call_outputs' = << >>
    /\ pc' = "while"
    /\ UNCHANGED << functions, remote, registry, config, invoked, finish_reason, response_id, futures, result,
                    completions, issued >>

\* As OtherTurn, but with the reply appended to the transcript.
OtherTurnAppends ==
    /\ pc = "reply"
    /\ ~IsFinalStop(finish_reason, message[1].tool_calls)
    /\ ~IsToolTurn(finish_reason, message[1].tool_calls)
    /\ messages' = Append(messages, MsgDict(message[1]))
    /\ steps' = steps + 1
    /\ finish_reason' = ""
    /\ message' = << >>
    /\ pc' = "while"
    /\ UNCHANGED << functions, remote, registry, config, invoked, response_id, futures,
                    tool_call_outputs, result, completions, issued >>


\* Neither a final stop nor a tool turn: the loop's trailing steps += 1.
OtherTurn ==
    /\ pc = "reply"
    /\ ~IsFinalStop(finish_reason, message[1].tool_calls)
    /\ ~IsToolTurn(finish_reason, message[1].tool_calls)
    /\ steps' = steps + 1
    /\ finish_reason' = ""
    /\ message' = << >>
    /\ pc' = "while"
    /\ UNCHANGED << functions, remote, registry, config, invoked, messages, response_id, futures, tool_call_outputs,
                    result, completions, issued >>

\* The loop test fails: the max-steps response is built from response_id and
\* the other locals of the last iteration, which are unbound when the loop
\* body never ran (UnboundLocalError).
ExitLoop ==
    /\ pc = "while"
    /\ ~LoopCondition(steps, max_steps)
    /\ IF response_id = << >>
       THEN pc' = "raised" /\ result' = result
       ELSE pc' = "done" /\ result' = << MaxStepsResponse(response_id) >>
    /\ UNCHANGED << functions, remote, registry, config, invoked, steps, messages, finish_reason, message, response_id,
                    futures, tool_call_outputs, completions, issued >>

Next ==
    \/ Run
    \/ CallModel
    \/ ReturnFinal
    \/ CorrectionRetry
    \/ Dispatch
    \/ SequentialCall
    \/ \E i \in DOMAIN futures : WorkerRun(i)
    \/ \E i \in DOMAIN futures : AsCompleted(i)
    \/ ExecutorExit
    \/ AppendTurn
    \/ OtherTurn
    \/ ExitLoop

Spec == Init /\ [][Next]_vars

\* The run's thread and the pool's workers keep being scheduled, and model
\* and tool calls return.
FairSpec == Spec /\ WF_vars(Next)

\* -------------------------------------------- the registration specification
\* Agent.run is not started: its state while an Agent is being constructed.
RunIdle ==
    /\ max_steps = 1
    /\ response_format_model_type = FALSE
    /\ concurrent_tool_execution = FALSE
    /\ pc = "idle"
    /\ steps = 0
    /\ messages = << >>
    /\ finish_reason = ""
    /\ message = << >>
    /\ response_id = << >>
    /\ futures = << >>
    /\ tool_call_outputs = << >>
    /\ result = << >>
    /\ completions = << >>
    /\ issued = 0
    /\ invoked = {}

\* The arguments of a call of Agent(...), before __init__ has run.
RegistryInit ==
    /\ RunIdle
    /\ RemoteIdle
    /\ FunctionsIdle
    /\ tools \in SeqsUpTo(LocalTools, MaxTools)
    /\ sub_agents \in SeqsUpTo(SubAgentNames, MaxTools)
    /\ constructed = "no"
    /\ self_tool_schemas = << >>
    /\ self_tool_maps = EmptyDict

\* Agent.__init__: self.tool_schemas, self.tool_maps =
\* generate_tool_schemas(combined_tools). No statement of it or of
\* generate_tool_schemas raises on a name met twice.
Construct ==
    /\ constructed = "no"
    /\ LET generated == generate_tool_schemas(CombinedTools(tools, sub_agents))
       IN  /\ self_tool_schemas' = generated.tool_schemas
           /\ self_tool_maps' = generated.tool_maps
    /\ constructed' = "yes"
    /\ UNCHANGED << functions, remote, run_vars, tools, sub_agents >>

RegistryNext == Construct

SpecRegistry == RegistryInit /\ [][RegistryNext]_vars

\* ------------------------------------------------- the manager specification
\* The elements of a sequence.
Range(seq) == { seq[i] : i \in DOMAIN seq }

\* The server lists add_servers may be called with: servers the manager does
\* not have yet, each once.
Additions ==
    { new \in SeqsUpTo(Servers, Cardinality(Servers)) :
          /\ new # << >>
          /\ Cardinality(Range(new)) = Len(new)
          /\ Range(new) \cap Range(_servers) = {} }

\* The servers that have reached the failure threshold and whose backoff
\* window is over at this reading of the clock.
Due ==
    { s \in Range(_servers) :
          /\ Get(_failure_counts, s, 0) >= _failure_threshold
          /\ s \in DOMAIN _skip_until
          /\ clock > _skip_until[s] }

\* The server the task's loop is at.
ServerOf(p) == _servers[task[p].index]

\* A manager just built, with no server yet, and no task in load_tools.
MCPInit ==
    /\ RunIdle
    /\ RegistryIdle
    /\ _servers = << >>
    /\ _tool_cache = << >>
    /\ _failure_counts = EmptyDict
    /\ _skip_until = EmptyDict
    /\ _failure_threshold \in Thresholds
    /\ _backoff_seconds \in Backoffs
    /\ clock = 0
    /\ loads = 0
    /\ task = [p \in Tasks |-> NoCall]
    /\ recorded = [s \in Servers |-> 0]
    /\ connections = {}
    /\ ThrottleIdle
    /\ FunctionsIdle

\* As AddServers, but leaving the cache as it is.
AddServersKeepCache ==
    /\ \E new \in Additions : _servers' = _servers \o new
    /\ UNCHANGED << functions, run_vars, registry, throttle, recorded, connections, _tool_cache, _failure_counts, _skip_until,
                    _failure_threshold, _backoff_seconds, clock, loads, task >>

\* add_servers(servers): the list is extended and the cache dropped.
AddServers ==
    /\ \E new \in Additions : _servers' = _servers \o new
    /\ _tool_cache' = << >>
    /\ UNCHANGED << functions, run_vars, registry, throttle, recorded, connections, _failure_counts, _skip_until,
                    _failure_threshold, _backoff_seconds, clock, loads, task >>

\* As LoadStart, but the cache is passed over when a server's backoff window
\* has run out.
LoadStartRetriesDue(p) ==
    /\ task[p].pc \in {"idle", "returned"}
    /\ loads < MaxLoads
    /\ loads' = loads + 1
    /\ LET entered == [NoCall EXCEPT !.due = Due]
       IN  task' = [task EXCEPT ![p] =
               IF _tool_cache # << >> /\ Due = {}
               THEN [entered EXCEPT !.pc = "returned", !.result = _tool_cache]
               ELSE IF _servers = << >>
               THEN [entered EXCEPT !.pc = "returned",
                         !.result = << [all_schemas |-> << >>,
                                        all_mappings |-> EmptyDict] >>]
               ELSE [entered EXCEPT !.pc = "loop", !.index = 1]]
    /\ UNCHANGED << functions, run_vars, registry, throttle, recorded, connections,
                    _servers, _tool_cache, _failure_counts, _skip_until,
                    _failure_threshold, _backoff_seconds, clock >>

\* A task calls load_tools: the cached aggregate is returned if there is one,
\* an empty aggregate if there is no server, else the loop is entered with
\* fresh all_schemas and all_mappings.
LoadStart(p) ==
    /\ task[p].pc \in {"idle", "returned"}
    /\ loads < MaxLoads
    /\ loads' = loads + 1
    /\ LET entered == [NoCall EXCEPT !.due = Due]
       IN  task' = [task EXCEPT ![p] =
               IF _tool_cache # << >>
               THEN [entered EXCEPT !.pc = "returned", !.result = _tool_cache]
               ELSE IF _servers = << >>
               THEN [entered EXCEPT !.pc = "returned",
                         !.result = << [all_schemas |-> << >>,
                                        all_mappings |-> EmptyDict] >>]
               ELSE [entered EXCEPT !.pc = "loop", !.index = 1]]
    /\ UNCHANGED << functions, run_vars, registry, throttle, recorded, connections, _servers, _tool_cache, _failure_counts,
                    _skip_until, _failure_threshold, _backoff_seconds, clock >>

\* The loop's skip test holds for the server: continue.
LoopSkip(p) ==
    /\ task[p].pc = "loop"
    /\ task[p].index <= Len(_servers)
    /\ InCooldown(ServerOf(p), clock)
    /\ task' = [task EXCEPT ![p].index = @ + 1]
    /\ UNCHANGED << functions, run_vars, registry, throttle, recorded, connections, _servers, _tool_cache, _failure_counts,
                    _skip_until, _failure_threshold, _backoff_seconds, clock, loads >>

\* The skip test fails: the task enters connection_cm(server_config) and
\* waits for the connection and the session.
ConnectBegin(p) ==
    /\ task[p].pc = "loop"
    /\ task[p].index <= Len(_servers)
    /\ ~InCooldown(ServerOf(p), clock)
    /\ task' = [task EXCEPT ![p].pc = "connecting",
                            ![p].attempted = @ \cup {ServerOf(p)}]
    /\ UNCHANGED << functions, run_vars, registry, throttle, recorded, connections, _servers, _tool_cache, _failure_counts,
                    _skip_until, _failure_threshold, _backoff_seconds, clock, loads >>

\* As ConnectFail, but with the count read when the attempt began: the
\* increment is lost when another task is attempting the same server.
ConnectFailStale(p) ==
    /\ task[p].pc = "connecting"
    /\ LET server_id == ServerOf(p)
           raced == \E q \in Tasks \ {p} : /\ task[q].pc = "connecting"
                                            /\ ServerOf(q) = server_id
           count == Get(_failure_counts, server_id, 0) + (IF raced THEN 0 ELSE 1)
       IN  /\ _failure_counts' = SetItem(_failure_counts, server_id, count)
           /\ _skip_until' = IF AtThreshold(count)
                             THEN SetItem(_skip_until, server_id,
                                          clock + _backoff_seconds)
                             ELSE _skip_until
           /\ task' = [task EXCEPT ![p].pc = "loop", ![p].index = @ + 1,
                                   ![p].failed = @ \cup {server_id}]
           /\ recorded' = [recorded EXCEPT ![server_id] = @ + 1]
    /\ UNCHANGED << functions, run_vars, registry, throttle, connections, _servers, _tool_cache,
                    _failure_threshold, _backoff_seconds, clock, loads >>

\* The connection, the session or session.initialize() raises: the outer
\* except counts the failure, starts the backoff at the threshold, continue.
ConnectFail(p) ==
    /\ task[p].pc = "connecting"
    /\ LET server_id == ServerOf(p)
           count == Get(_failure_counts, server_id, 0) + 1
       IN  /\ _failure_counts' = SetItem(_failure_counts, server_id, count)
           /\ _skip_until' = IF AtThreshold(count)
                             THEN SetItem(_skip_until, server_id,
                                          clock + _backoff_seconds)
                             ELSE _skip_until
           /\ task' = [task EXCEPT ![p].pc = "loop", ![p].index = @ + 1,
                                   ![p].failed = @ \cup {server_id}]
           /\ recorded' = [recorded EXCEPT ![server_id] = @ + 1]
    /\ UNCHANGED << functions, run_vars, registry, throttle, connections, _servers, _tool_cache,
                    _failure_threshold, _backoff_seconds, clock, loads >>

\* session.initialize() returns: the task waits for load_mcp_tools.
ConnectOk(p) ==
    /\ task[p].pc = "connecting"
    /\ task' = [task EXCEPT ![p].pc = "connected"]
    /\ connections' = connections \cup {Connection(p, ServerOf(p))}
    /\ UNCHANGED << functions, run_vars, registry, throttle, recorded, _servers, _tool_cache, _failure_counts,
                    _skip_until, _failure_threshold, _backoff_seconds, clock, loads >>

\* As ListFail, but counting the failure as a connection failure.
ListFailCounted(p) ==
    /\ task[p].pc = "connected"
    /\ task' = [task EXCEPT ![p].pc = "loop", ![p].index = @ + 1]
    /\ _failure_counts' = SetItem(_failure_counts, ServerOf(p),
                                  Get(_failure_counts, ServerOf(p), 0) + 1)
    /\ connections' = connections \ {Connection(p, ServerOf(p))}
    /\ UNCHANGED << functions, run_vars, registry, throttle, recorded, _servers, _tool_cache,
                    _skip_until, _failure_threshold, _backoff_seconds, clock, loads >>

\* load_mcp_tools raises: the inner except logs a warning, nothing else.
ListFail(p) ==
    /\ task[p].pc = "connected"
    /\ task' = [task EXCEPT ![p].pc = "loop", ![p].index = @ + 1]
    /\ connections' = connections \ {Connection(p, ServerOf(p))}
    /\ UNCHANGED << functions, run_vars, registry, throttle, recorded, _servers, _tool_cache, _failure_counts,
                    _skip_until, _failure_threshold, _backoff_seconds, clock, loads >>

\* load_mcp_tools returns the server's tools and the for loop wraps them.
\* When it ends, the server's failure count and skip_until are popped; when
\* the duplicate-name ValueError is raised, the same inner except catches it
\* and they are left alone.
LoadTools(p) ==
    /\ task[p].pc = "connected"
    /\ \E listing \in Listings(ServerOf(p)) :
          LET server_id == ServerOf(p)
              wrapped == WrapTools(task[p].all_schemas, task[p].all_mappings,
                                   server_id, listing)
          IN  /\ task' = [task EXCEPT
                     ![p].pc = "loop", ![p].index = @ + 1,
                     ![p].all_schemas = wrapped.all_schemas,
                     ![p].all_mappings = wrapped.all_mappings,
                     ![p].collided = @ \/ wrapped.raised,
                     ![p].loaded = IF wrapped.raised THEN @ ELSE @ \cup {server_id}]
              /\ _failure_counts' = IF wrapped.raised THEN _failure_counts
                                    ELSE Pop(_failure_counts, server_id)
              /\ _skip_until' = IF wrapped.raised THEN _skip_until
                                ELSE Pop(_skip_until, server_id)
              /\ recorded' = IF wrapped.raised THEN recorded
                              ELSE [recorded EXCEPT ![server_id] = 0]
              /\ connections' = connections \ {Connection(p, server_id)}
    /\ UNCHANGED << functions, run_vars, registry, throttle, _servers, _tool_cache,
                    _failure_threshold, _backoff_seconds, clock, loads >>

\* The for loop is over: self._tool_cache = (all_schemas, all_mappings) and
\* the same pair is returned.
LoadReturn(p) ==
    /\ task[p].pc = "loop"
    /\ task[p].index > Len(_servers)
    /\ LET aggregate == [all_schemas |-> task[p].all_schemas,
                         all_mappings |-> task[p].all_mappings]
       IN  /\ _tool_cache' = << aggregate >>
           /\ task' = [task EXCEPT ![p].pc = "returned", ![p].index = 0,
                                   ![p].all_schemas = << >>,
                                   ![p].all_mappings = EmptyDict,
                                   ![p].result = << aggregate >>]
    /\ UNCHANGED << functions, run_vars, registry, throttle, recorded, connections, _servers, _failure_counts, _skip_until,
                    _failure_threshold, _backoff_seconds, clock, loads >>

\* Time passes.
Tick ==
    /\ clock < MaxTime
    /\ clock' = clock + 1
    /\ UNCHANGED << functions, run_vars, registry, throttle, recorded, connections, _servers, _tool_cache, _failure_counts,
                    _skip_until, _failure_threshold, _backoff_seconds, loads, task >>

MCPNext ==
    \/ AddServers
    \/ Tick
    \/ \E p \in Tasks :
          \/ LoadStart(p)
          \/ LoopSkip(p)
          \/ ConnectBegin(p)
          \/ ConnectFail(p)
          \/ ConnectOk(p)
          \/ ListFail(p)
          \/ LoadTools(p)
          \/ LoadReturn(p)

SpecMCP == MCPInit /\ [][MCPNext]_vars

\* ---------------------------------------------- the invocation specification
\* The max_parallel_calls a manager may be built with.
Limits == {1, 2}

\* The wrappers a caller can hold, each with the name and the server config
\* it was made for: the invocables of an aggregate load_tools has returned.
Wrappers ==
    LET aggregates == { task[p].result : p \in Tasks } \cup {_tool_cache}
    IN  UNION { { << name, held[1].all_mappings[name] >> :
                      name \in DOMAIN held[1].all_mappings } :
                held \in aggregates \ {<< >>} }

\* As locked, but a permit is always there for the taking.
lockedNever == FALSE

\* Semaphore.locked(): no permit is left, or a task is queued for one.
locked == _semaphore = 0 \/ waiters # << >>

\* The queued tasks whose future is not done yet, in queue order.
Pending(calls) == SelectSeq(waiters, LAMBDA c : calls[c].pc = "waiting")

\* Semaphore._wake_up_next() at a value: the first queued task whose
\* future is not done takes a permit and has its future resolved.
WakeUpNext(value, calls) ==
    IF Pending(calls) = << >>
    THEN [_semaphore |-> value, call |-> calls]
    ELSE [_semaphore |-> value - 1,
          call |-> [calls EXCEPT ![Head(Pending(calls))].pc = "woken"]]

\* As Release, but the permit is kept.
ReleaseNothing(calls) == [_semaphore |-> _semaphore, call |-> calls]

\* Semaphore.release(), as `async with _sem` runs it on every exit.
Release(calls) == WakeUpNext(_semaphore + 1, calls)

\* A manager just built, with no server yet and no task in load_tools or in
\* a wrapper.
CallsInit ==
    /\ RunIdle
    /\ RegistryIdle
    /\ _servers = << >>
    /\ _tool_cache = << >>
    /\ _failure_counts = EmptyDict
    /\ _skip_until = EmptyDict
    /\ _failure_threshold = 1
    /\ _backoff_seconds = 1
    /\ clock = 0
    /\ loads = 0
    /\ task = [p \in Tasks |-> NoCall]
    /\ recorded = [s \in Servers |-> 0]
    /\ connections = {}
    /\ max_parallel_calls \in Limits
    /\ _semaphore = max_parallel_calls
    /\ waiters = << >>
    /\ call = [c \in Invokers |-> NoInvocation]
    /\ invocations = 0
    /\ FunctionsIdle

\* The variables no tool_wrapper step changes.
loading == << _servers, _tool_cache, _failure_counts, _skip_until,
             _failure_threshold, _backoff_seconds, clock, loads, task, recorded,
             max_parallel_calls >>

\* A task calls a wrapper: `async with _sem` takes a permit when the
\* semaphore is not locked, else the task queues up and waits.
Invoke(c) ==
    /\ call[c].pc \in {"idle", "returned", "raised"}
    /\ invocations < MaxCalls
    /\ invocations' = invocations + 1
    /\ \E w \in Wrappers :
          IF locked
          THEN /\ call' = [call EXCEPT ![c] = [pc |-> "waiting", name |-> w[1],
                                               server |-> w[2]]]
               /\ waiters' = Append(waiters, c)
               /\ UNCHANGED _semaphore
          ELSE /\ call' = [call EXCEPT ![c] = [pc |-> "acquired", name |-> w[1],
                                               server |-> w[2]]]
               /\ _semaphore' = _semaphore - 1
               /\ UNCHANGED waiters
    /\ UNCHANGED << functions, run_vars, registry, loading, connections >>

\* A queued task whose future was resolved runs again: it leaves the queue,
\* passes a spare permit on, and holds its own.
Resume(c) ==
    /\ call[c].pc = "woken"
    /\ waiters' = SelectSeq(waiters, LAMBDA w : w # c)
    /\ LET held == [call EXCEPT ![c].pc = "acquired"]
           next == IF _semaphore > 0
                   THEN WakeUpNext(_semaphore, held)
                   ELSE [_semaphore |-> _semaphore, call |-> held]
       IN  /\ call' = next.call
           /\ _semaphore' = next._semaphore
    /\ UNCHANGED << functions, run_vars, registry, loading, connections, invocations >>

\* connection_cm(_s_config) is entered: the connection is open.
OpenOk(c) ==
    /\ call[c].pc = "acquired"
    /\ call' = [call EXCEPT ![c].pc = "connected"]
    /\ connections' = connections \cup {Connection(c, call[c].server)}
    /\ UNCHANGED << functions, run_vars, registry, loading, _semaphore, waiters, invocations >>

\* As OpenFail, but the failure is counted against the server.
OpenFailCounted(c) ==
    /\ call[c].pc = "acquired"
    /\ LET left == Release([call EXCEPT ![c].pc = "raised"])
       IN  /\ call' = left.call
           /\ _semaphore' = left._semaphore
    /\ _failure_counts' = SetItem(_failure_counts, call[c].server,
                                  Get(_failure_counts, call[c].server, 0) + 1)
    /\ UNCHANGED << functions, run_vars, registry, connections, waiters, invocations,
                    _servers, _tool_cache, _skip_until, _failure_threshold,
                    _backoff_seconds, clock, loads, task, recorded,
                    max_parallel_calls >>

\* connection_cm(_s_config) raises: the permit is released, the error goes
\* to the caller.
OpenFail(c) ==
    /\ call[c].pc = "acquired"
    /\ LET left == Release([call EXCEPT ![c].pc = "raised"])
       IN  /\ call' = left.call
           /\ _semaphore' = left._semaphore
    /\ UNCHANGED << functions, run_vars, registry, loading, connections, waiters, invocations >>

\* ClientSession is entered and session_inner.initialize() returns.
InitOk(c) ==
    /\ call[c].pc = "connected"
    /\ call' = [call EXCEPT ![c].pc = "session"]
    /\ UNCHANGED << functions, run_vars, registry, loading, connections, _semaphore, waiters,
                    invocations >>

\* ClientSession or session_inner.initialize() raises: the connection is
\* closed, the permit released.
InitFail(c) ==
    /\ call[c].pc = "connected"
    /\ connections' = connections \ {Connection(c, call[c].server)}
    /\ LET left == Release([call EXCEPT ![c].pc = "raised"])
       IN  /\ call' = left.call
           /\ _semaphore' = left._semaphore
    /\ UNCHANGED << functions, run_vars, registry, loading, waiters, invocations >>

\* call_openai_tool returns and the wrapper returns the text: the session
\* and the connection are closed, the permit released.
CallOk(c) ==
    /\ call[c].pc = "session"
    /\ connections' = connections \ {Connection(c, call[c].server)}
    /\ LET left == Release([call EXCEPT ![c].pc = "returned"])
       IN  /\ call' = left.call
           /\ _semaphore' = left._semaphore
    /\ UNCHANGED << functions, run_vars, registry, loading, waiters, invocations >>

\* call_openai_tool raises: the same exits, and the error goes to the caller.
CallFail(c) ==
    /\ call[c].pc = "session"
    /\ connections' = connections \ {Connection(c, call[c].server)}
    /\ LET left == Release([call EXCEPT ![c].pc = "raised"])
       IN  /\ call' = left.call
           /\ _semaphore' = left._semaphore
    /\ UNCHANGED << functions, run_vars, registry, loading, waiters, invocations >>

\* A step of a tool_wrapper call.
CallStep(c) ==
    \/ Invoke(c)
    \/ Resume(c)
    \/ OpenOk(c)
    \/ OpenFail(c)
    \/ InitOk(c)
    \/ InitFail(c)
    \/ CallOk(c)
    \/ CallFail(c)

\* The task that calls load_tools while wrappers are being called.
Loader == "t1"

CallsNext ==
    \/ AddServers
    \/ LoadStart(Loader)
    \/ LoopSkip(Loader)
    \/ ConnectBegin(Loader)
    \/ ConnectFail(Loader)
    \/ ConnectOk(Loader)
    \/ ListFail(Loader)
    \/ LoadTools(Loader)
    \/ LoadReturn(Loader)
    \/ \E c \in Invokers : CallStep(c)

SpecCalls == CallsInit /\ [][CallsNext]_vars

\* The event loop runs every task that can run: a step of a wrapper call
\* that stays possible is taken.
FairSpecCalls == SpecCalls /\ \A c \in Invokers : WF_vars(CallStep(c))

\* --------------------------------------------- the normalize specification
\* The server configurations a caller may write: a stdio server with and
\* without the transport key, stdio servers lacking command or args, an sse
\* server with and without url, with headers, a server with only a url, and
\* a transport that does not exist.
Configs ==
    { [command |-> "npx", args |-> "server.js"],
      [transport |-> "stdio", name |-> "files", command |-> "npx", args |-> "fs.js"],
      [transport |-> "stdio", command |-> "npx"],
      [transport |-> "stdio", args |-> "server.js"],
      [transport |-> "sse", url |-> "http://host/sse"],
      [transport |-> "sse", url |-> "http://host/sse", headers |-> "auth"],
      [transport |-> "sse", name |-> "remote"],
      [url |-> "http://host/sse"],
      [transport |-> "http", url |-> "http://host/mcp"] }

\* What secrets.token_hex(4) may return.
Tokens == {"00c0ffee", "deadbeef"}

\* As normalized_server, but a stdio server needs only its command.
normalized_serverArgsOptional(server, server_id) ==
    LET transport == Get(server, "transport", "stdio")
    IN  IF transport = "stdio" /\ Get(server, "command", None) # None
        THEN [raised |-> FALSE,
              server |-> [id |-> server_id, transport |-> "stdio",
                          name |-> Get(server, "name", ""),
                          command |-> server.command,
                          args |-> Get(server, "args", None)]]
        ELSE IF transport = "sse" /\ Get(server, "url", None) # None
        THEN [raised |-> FALSE,
              server |-> [id |-> server_id, transport |-> "sse",
                          name |-> Get(server, "name", ""), url |-> server.url]]
        ELSE [raised |-> TRUE]

\* The body of the loop of normalize_mcp_servers for one server and the id
\* made for it: the ValueError it raises, or the normalized_server it builds.
normalized_server(server, server_id) ==
    LET transport == Get(server, "transport", "stdio")
    IN  IF transport = "stdio"
        THEN LET command == Get(server, "command", None)
                 args == Get(server, "args", None)
             IN  IF command = None \/ args = None
                 THEN [raised |-> TRUE]
                 ELSE [raised |-> FALSE,
                       server |-> [id |-> server_id, transport |-> "stdio",
                                   name |-> Get(server, "name", ""),
                                   command |-> command, args |-> args]]
        ELSE IF transport = "sse"
        THEN LET url == Get(server, "url", None)
                 headers == Get(server, "headers", None)
             IN  IF url = None
                 THEN [raised |-> TRUE]
                 ELSE [raised |-> FALSE,
                       server |-> IF headers # None
                                  THEN [id |-> server_id, transport |-> "sse",
                                        name |-> Get(server, "name", ""),
                                        url |-> url, headers |-> headers]
                                  ELSE [id |-> server_id, transport |-> "sse",
                                        name |-> Get(server, "name", ""),
                                        url |-> url]]
        ELSE [raised |-> TRUE]

\* The state the manager's variables are left in by the normalize steps.
managing == << _tool_cache, _failure_counts, _skip_until, _failure_threshold,
              _backoff_seconds, clock, loads, task, recorded, connections,
              throttle >>

\* A manager just built, and normalize_mcp_servers not called.
NormalizeInit ==
    /\ RunIdle
    /\ RegistryIdle
    /\ RemoteIdle
    /\ FunctionsIdle

\* The caller calls normalize_mcp_servers(servers): an empty list is returned
\* for no servers, else the loop is entered with an empty `normalized`. The
\* manager is given at most MaxConfigs servers in all.
NormalizeCall ==
    /\ normalization.pc \in {"idle", "raised"}
    /\ \E servers \in SeqsUpTo(Configs, MaxConfigs - Len(_servers)) :
          normalization' =
              IF servers = << >>
              THEN [NotNormalizing EXCEPT !.pc = "returned"]
              ELSE [NotNormalizing EXCEPT !.pc = "loop", !.servers = servers,
                                          !.index = 1]
    /\ UNCHANGED << run_vars, registry, _servers, managing, py_type, compiled, collaborators >>

\* One turn of the loop: an id is made from a fresh token, and the server's
\* normalized form is appended, or the ValueError leaves the function and
\* the list built so far is lost.
NormalizeServer ==
    /\ normalization.pc = "loop"
    /\ normalization.index <= Len(normalization.servers)
    /\ \E token \in Tokens :
          LET server == normalization.servers[normalization.index]
              server_id == "mcp_" \o token
              made == normalized_server(server, server_id)
          IN  normalization' =
                  IF made.raised
                  THEN [normalization EXCEPT !.pc = "raised", !.normalized = << >>]
                  ELSE [normalization EXCEPT
                            !.index = @ + 1,
                            !.normalized = Append(@, made.server)]
    /\ UNCHANGED << run_vars, registry, _servers, managing, py_type, compiled, collaborators >>

\* The loop is over: `normalized` is returned.
NormalizeReturn ==
    /\ normalization.pc = "loop"
    /\ normalization.index > Len(normalization.servers)
    /\ normalization' = [normalization EXCEPT !.pc = "returned",
                                              !.normalized = << >>,
                                              !.result = normalization.normalized]
    /\ UNCHANGED << run_vars, registry, _servers, managing, py_type, compiled, collaborators >>

\* The caller hands the returned list to add_servers: the manager knows a
\* server by the id of its descriptor.
AddNormalized ==
    /\ normalization.pc = "returned"
    /\ _servers' = _servers \o [i \in DOMAIN normalization.result |->
                                    normalization.result[i].id]
    /\ _tool_cache' = << >>
    /\ normalization' = NotNormalizing
    /\ UNCHANGED << run_vars, registry, _failure_counts, _skip_until,
                    _failure_threshold, _backoff_seconds, clock, loads, task,
                    recorded, connections, throttle, py_type, compiled, collaborators >>

NormalizeNext ==
    \/ NormalizeCall
    \/ NormalizeServer
    \/ NormalizeReturn
    \/ AddNormalized

SpecNormalize == NormalizeInit /\ [][NormalizeNext]_vars

\* ------------------------------------------- the dataclass specification
\* dataclasses.MISSING, the value of Field.default and Field.default_factory
\* of a field declared without them, and inspect.Parameter.empty.
MISSING == "dataclasses.MISSING"
Empty == "inspect.Parameter.empty"

\* The field names in the order sorted() puts them.
FieldNames == << "a", "b", "c" >>

\* The type hints of the fields.
FieldTypes == {"int", "Optional[int]"}

\* The Field objects dataclasses.fields() may return: a Field always has
\* the attributes default and default_factory, and not both set.
Fields ==
    { f \in [name : Range(FieldNames), type : FieldTypes,
             default : {MISSING, "0"}, default_factory : {MISSING, "list"}] :
          f.default = MISSING \/ f.default_factory = MISSING }

\* The field was declared with a default or a default factory.
HasDefault(f) == f.default # MISSING \/ f.default_factory # MISSING

\* The dataclasses Python lets one declare with up to MaxFields fields: the
\* names differ and no field without a default follows one with a default.
Dataclasses ==
    { dc \in SeqsUpTo(Fields, MaxFields) :
          /\ \A i, j \in DOMAIN dc : i # j => dc[i].name # dc[j].name
          /\ \A i, j \in DOMAIN dc : i < j /\ HasDefault(dc[i]) => HasDefault(dc[j]) }

\* getattr(obj, attr, default)
GetAttr(obj, attr, default) == IF attr \in DOMAIN obj THEN obj[attr] ELSE default

\* The origin of the hint is Union and NoneType is among its arguments.
is_optional_type(field_type) == field_type = "Optional[int]"

\* sorted(list(set(required))) for a list of field names.
Sorted(required) == SelectSeq(FieldNames, LAMBDA name : name \in Range(required))

\* The dataclass branch of map_type_to_schema; `properties` holds the keys
\* of props in insertion order.
map_type_to_schema(dc_fields) ==
    LET required ==
            SelectSeq([i \in DOMAIN dc_fields |-> dc_fields[i]],
                      LAMBDA field :
                          /\ GetAttr(field, "default", Empty) = Empty
                          /\ GetAttr(field, "default_factory", Empty) = Empty
                          /\ ~is_optional_type(field.type))
    IN  [type |-> "object",
         properties |-> [i \in DOMAIN dc_fields |-> dc_fields[i].name],
         required |-> Sorted([i \in DOMAIN required |-> required[i].name]),
         additionalProperties |-> FALSE]

\* A dataclass has been declared and not yet compiled.
DataclassInit ==
    /\ RunIdle
    /\ RegistryIdle
    /\ RemoteIdle
    /\ normalization = NotNormalizing
    /\ py_type \in Dataclasses
    /\ compiled = << >>
    /\ CollaboratorsIdle

\* map_type_to_schema(py_type) is called and returns.
Compile ==
    /\ compiled = << >>
    /\ compiled' = << map_type_to_schema(py_type) >>
    /\ UNCHANGED << run_vars, registry, remote, normalization, py_type, collaborators >>

SpecDataclass == DataclassInit /\ [][Compile]_vars

\* ------------------------------------------------ the type specification
\* A type hint as get_origin and get_args show it: a class or special form
\* has itself as origin and no arguments.
Atom(name) == [origin |-> name, args |-> << >>]

\* The classes and special forms of the model: Node and Leaf are
\* dataclasses, complex is a class map_type_to_schema has no case for.
Atoms == { Atom(name) : name \in {"int", "str", "NoneType", "Any", "complex",
                                  "Node", "Leaf"} }

\* typing.List[T]
ListOf(T) == [origin |-> "List", args |-> << T >>]

\* The members of a union with the members of nested unions in their place.
RECURSIVE Flatten(_)
Flatten(members) ==
    IF members = << >> THEN << >>
    ELSE LET first == Head(members)
         IN  (IF first.origin \in {"Union", "UnionType"}
              THEN Flatten(first.args) ELSE << first >>) \o Flatten(Tail(members))

\* The sequence without the later occurrences of its elements.
RECURSIVE Dedupe(_)
Dedupe(seq) ==
    IF seq = << >> THEN << >>
    ELSE LET front == Dedupe(SubSeq(seq, 1, Len(seq) - 1))
             last == seq[Len(seq)]
         IN  IF last \in Range(front) THEN front ELSE Append(front, last)

\* typing.Union[members]: flattened, without duplicates, and the member
\* itself when only one is left.
UnionOf(members) ==
    LET args == Dedupe(Flatten(members))
    IN  IF Len(args) = 1 THEN args[1] ELSE [origin |-> "Union", args |-> args]

\* T | None: a typing.Union when T is a typing construct, a types.UnionType
\* when T is a class.
Bar(T) ==
    IF T.origin \in {"List", "Union"}
    THEN UnionOf(<< T, Atom("NoneType") >>)
    ELSE [origin |-> "UnionType", args |-> << T, Atom("NoneType") >>]

\* The type hints with constructs nested up to a depth.
RECURSIVE TypesUpTo(_)
TypesUpTo(depth) ==
    IF depth = 0 THEN Atoms
    ELSE LET inner == TypesUpTo(depth - 1)
         IN  inner \cup { ListOf(T) : T \in inner }
                   \cup { UnionOf(<< A, B >>) : A \in inner, B \in Atoms }

\* The ways to declare a parameter of type T, or of optional T.
Ways == {"T", "Optional[T]", "Union[T, None]", "Union[None, T]", "T | None"}

\* The declarations Python accepts: None | None is a TypeError.
Declarations ==
    { d \in [way : Ways, of : TypesUpTo(MaxNesting)] :
          ~(d.way = "T | None" /\ d.of = Atom("NoneType")) }

\* The hint object a declaration evaluates to.
Hint(d) ==
    CASE d.way = "T" -> d.of
      [] d.way \in {"Optional[T]", "Union[T, None]"} ->
             UnionOf(<< d.of, Atom("NoneType") >>)
      [] d.way = "Union[None, T]" -> UnionOf(<< Atom("NoneType"), d.of >>)
      [] d.way = "T | None" -> Bar(d.of)

\* The fields of the dataclasses and their resolved type hints: a Node
\* refers to itself.
ClassFields(class) ==
    IF class = "Node"
    THEN << [name |-> "value", type |-> Atom("int")],
            [name |-> "next", type |-> UnionOf(<< Atom("Node"), Atom("NoneType") >>)] >>
    ELSE << [name |-> "value", type |-> Atom("int")] >>

\* The frames the interpreter allows map_type_to_schema to nest: more than
\* any declaration of the model needs.
RecursionLimit == MaxNesting + 6

\* map_type_to_schema returned a schema, or left by RecursionError.
Returned(schema) == [raised |-> FALSE, schema |-> schema]
RecursionError == [raised |-> TRUE]

\* [map_type_to_schema(a) for a in args] as the frame that runs it sees it.
Collected(results) ==
    IF \E i \in DOMAIN results : results[i].raised
    THEN RecursionError
    ELSE Returned([i \in DOMAIN results |-> results[i].schema])

\* map_type_to_schema(py_type) run in the given frame, for the hints of the
\* model: the cases are tried in the order of the code.
RECURSIVE TypeSchema(_, _)
TypeSchema(hint, frame) ==
    LET Each(types) ==
            Collected([i \in DOMAIN types |-> TypeSchema(types[i], frame + 1)])
        origin == hint.origin
        args == hint.args
    IN  IF frame > RecursionLimit THEN RecursionError
        ELSE IF origin = "NoneType" THEN Returned([type |-> "null"])
        ELSE IF origin = "str" THEN Returned([type |-> "string"])
        ELSE IF origin = "int" THEN Returned([type |-> "integer"])
        ELSE IF origin = "List"
        THEN LET items == Each(args)
             IN  IF items.raised THEN RecursionError
                 ELSE Returned([type |-> "array", items |-> items.schema[1]])
        ELSE IF origin \in {"Node", "Leaf"}
        THEN LET dc_fields == ClassFields(origin)
                 props == Each([i \in DOMAIN dc_fields |-> dc_fields[i].type])
             IN  IF props.raised THEN RecursionError
                 ELSE Returned([type |-> "object",
                                properties |->
                                    [i \in DOMAIN dc_fields |->
                                         << dc_fields[i].name, props.schema[i] >>],
                                required |-> << >>,
                                additionalProperties |-> FALSE])
        ELSE IF origin = "Union"
        THEN LET non_none_args == SelectSeq(args, LAMBDA a : a.origin # "NoneType")
                 mapped == Each(non_none_args)
             IN  IF non_none_args = << >> THEN Returned([type |-> "null"])
                 ELSE IF mapped.raised THEN RecursionError
                 ELSE IF Atom("NoneType") \in Range(args)
                 THEN Returned([anyOf |-> Append(mapped.schema, [type |-> "null"])])
                 ELSE Returned([anyOf |-> mapped.schema])
        ELSE IF origin = "Any" THEN Returned(EmptyDict)
        ELSE Returned([type |-> "object"])

\* A parameter has been declared and its hint not yet compiled.
TypesInit ==
    /\ RunIdle
    /\ RegistryIdle
    /\ RemoteIdle
    /\ normalization = NotNormalizing
    /\ py_type \in Declarations
    /\ compiled = << >>
    /\ CollaboratorsIdle

\* map_type_to_schema is called with the declaration's hint and returns or
\* raises.
MapType ==
    /\ compiled = << >>
    /\ compiled' = << TypeSchema(Hint(py_type), 1) >>
    /\ UNCHANGED << run_vars, registry, remote, normalization, py_type, collaborators >>

SpecTypes == TypesInit /\ [][MapType]_vars

\* ------------------------------------------------- what the claims speak of
\* Agent.run has returned or raised.
Terminated == pc \in {"done", "raised"}

\* The completion calls of one kind made so far.
CallsOf(kind) == { i \in DOMAIN completions : completions[i].call = kind }

MainCalls == Cardinality(CallsOf("main"))

Corrections == Cardinality(CallsOf("correction"))

\* No main-loop reply so far was a stop without tool calls.
NeverStops == \A i \in CallsOf("main") : ~completions[i].final

\* The run returned the budget-exhausted response.
ReturnedMaxSteps ==
    /\ pc = "done"
    /\ result # << >>
    /\ result[1].finish_reason = "max_steps_reached"
    /\ result[1].content = "Max steps reached without final answer."

\* The reply in hand is a stop without tool calls.
AtFinalStop == pc = "reply" /\ IsFinalStop(finish_reason, message[1].tool_calls)

\* The reply in hand is a stop without tool calls that fails validation.
AtInvalidStop ==
    AtFinalStop /\ response_format_model_type /\ ValidationRaises(message[1].content)

\* ---------------------------------------------------------------------- C1
\* A finished run with a budget and no final stop made exactly max_steps
\* main-loop calls and returned the budget-exhausted response.
C1_ExactlyMaxSteps ==
    (Terminated /\ max_steps >= 1 /\ NeverStops)
        => (ReturnedMaxSteps /\ MainCalls = max_steps)

\* C1: with max_steps >= 1 and a model none of whose main-loop replies is a
\* stop without tool calls, Agent.run terminates, after exactly max_steps
\* main-loop model calls, with the budget-exhausted response (under FairSpec).
C1_NeverStopping == [] C1_ExactlyMaxSteps /\ <> Terminated

C1_Witness ==
    /\ Terminated /\ NeverStops /\ max_steps = 2 /\ MainCalls = 2
    /\ ReturnedMaxSteps /\ issued > 0

\* ---------------------------------------------------------------------- C2
\* C2: for every max_steps >= 0, a run that leaves its loop on the exhausted
\* step budget returns the max-steps response and does not raise.
C2_SentinelNotRaise ==
    (Terminated /\ ~LoopCondition(steps, max_steps)) => ReturnedMaxSteps

\* ---------------------------------------------------------------------- C3
\* What one step of the run does to the counter.
C3_StepAction ==
    /\ steps' >= steps
    /\ (pc \in {"reply", "append"} /\ pc' = "while") => steps' = steps + 1
    /\ MainCalls' # MainCalls => steps < max_steps

\* C3: 0 <= steps <= max_steps always; steps never decreases; an iteration
\* that goes back to the loop test adds exactly 1; a main-loop model call is
\* made only while steps < max_steps.
C3_StepCounter ==
    [] (0 <= steps /\ steps <= max_steps) /\ [][C3_StepAction]_vars

C3_Witness == pc = "while" /\ steps = max_steps /\ steps = 2 /\ MainCalls = 2

\* ---------------------------------------------------------------------- C4
\* C4, as claimed: steps changes only on a tool turn or on a validation retry.
C4_OnlyToolOrRetry ==
    [][steps' # steps => (pc = "append" \/ AtInvalidStop)]_vars

\* C4, amended: steps changes, by exactly 1, only when an iteration ends
\* without returning: a tool turn, a validation retry, or a reply that is
\* neither a stop without tool calls nor a tool turn; a terminal stop leaves
\* it as it is.
C4_OnlyNonReturningTurns ==
    [][ /\ steps' # steps =>
             /\ steps' = steps + 1
             /\ \/ pc = "append"
                \/ AtInvalidStop
                \/ /\ pc = "reply"
                   /\ ~IsFinalStop(finish_reason, message[1].tool_calls)
                   /\ ~IsToolTurn(finish_reason, message[1].tool_calls)
        /\ (pc = "reply" /\ pc' = "done") => steps' = steps ]_vars

C4_Witness ==
    /\ pc = "while" /\ steps = 1 /\ messages # << >>
    /\ Len(completions) = 1 /\ completions[1].call = "main"
    /\ ~completions[1].final /\ Len(messages) = 2

\* ---------------------------------------------------------------------- C5
\* The step taken on a stop without tool calls and without response_format.
C5_ReturnStep ==
    (AtFinalStop /\ ~response_format_model_type) =>
        /\ pc' = "done"
        /\ result' # << >>
        /\ result'[1].content = message[1].content
        /\ result'[1].content_type = "str"
        /\ result'[1].finish_reason = "stop"
        /\ messages' = messages
        /\ completions' = completions

\* C5: without a response_format, a stop without tool calls makes the run
\* return at once with the reply's content as it is, with no further model
\* call and the transcript untouched; on the first reply one call was made.
C5_RawContentReturned ==
    /\ [][C5_ReturnStep]_vars
    /\ [] ((pc = "done" /\ ~response_format_model_type /\ response_id = << 1 >>
             /\ result[1].finish_reason = "stop") => Len(completions) = 1)

C5_Witness ==
    /\ pc = "done" /\ ~response_format_model_type /\ Len(completions) = 1
    /\ result[1].finish_reason = "stop" /\ result[1].content = "hello"
    /\ Len(messages) = 2

\* ---------------------------------------------------------------------- C6
\* The messages of one role in a transcript.
OfRole(msgs, role) == { i \in DOMAIN msgs : msgs[i].role = role }

\* The step taken on a stop without tool calls that fails validation.
C6_RetryStep ==
    AtInvalidStop =>
        /\ Cardinality(OfRole(messages', "user")) =
               Cardinality(OfRole(messages, "user")) + 1
        /\ SubSeq(messages', 1, Len(messages)) = messages
        /\ messages'[Len(messages) + 1] = CorrectionMessage(message[1].content)
        /\ Len(completions') = Len(completions) + 1
        /\ completions'[Len(completions')].call = "correction"
        /\ ~completions'[Len(completions')].tools
        /\ steps' = steps + 1
        /\ pc' = "while"
        /\ result' = << >>

\* C6: with a response_format, a stop without tool calls that fails
\* validation appends exactly one correction user message, makes exactly one
\* further model call, without tools, does not return, costs exactly one
\* step and goes back to the loop test.
C6_OneCorrectionPerFailure == [][C6_RetryStep]_vars

C6_Witness ==
    /\ pc = "while" /\ steps = 2 /\ Corrections = 2
    /\ Cardinality(OfRole(messages, "user")) = 3

\* ---------------------------------------------------------------------- C7
\* The first reply failed validation and the reply to the correction request
\* is a valid document.
InvalidThenValid ==
    /\ response_format_model_type
    /\ Len(completions) >= 2
    /\ completions[1].final /\ ValidationRaises(completions[1].content)
    /\ completions[2].call = "correction"
    /\ ~ValidationRaises(completions[2].content)

\* C7: when the first reply fails validation and the reply to the correction
\* request is valid, the run returns that second reply parsed, after exactly
\* 2 model calls.
C7_SecondReplyReturned ==
    InvalidThenValid =>
        /\ Len(completions) = 2
        /\ Terminated =>
              /\ pc = "done"
              /\ result[1].content = ModelValidateJson(completions[2].content)

\* ---------------------------------------------------------------------- C8
\* Every reply so far failed validation.
AllRepliesInvalid ==
    \A i \in DOMAIN completions :
        /\ ValidationRaises(completions[i].content)
        /\ completions[i].call = "main" => completions[i].final

\* C8: correction round trips are at most max_steps, model calls at most
\* 2 * max_steps, and with a model whose every reply fails validation the run
\* ends with the budget-exhausted response.
C8_BoundedByMaxSteps ==
    /\ Corrections <= max_steps
    /\ Len(completions) <= 2 * max_steps
    /\ (Terminated /\ response_format_model_type /\ AllRepliesInvalid)
           => ReturnedMaxSteps

\* C8 for a budget of at least one step, where the loop body runs.
C8_PositiveBudget == max_steps >= 1 => C8_BoundedByMaxSteps

\* --------------------------------------------------------------- C9, C10
\* The tool-call batch of the turn being dispatched.
Batch == IF message = << >> THEN << >> ELSE message[1].tool_calls

\* The results in tool_call_outputs that carry the id of request i.
ResultsOf(i) ==
    { j \in DOMAIN tool_call_outputs :
          tool_call_outputs[j].tool_call_id = Batch[i].id }

\* C9: once a batch of K requests is dispatched, sequentially or in the pool
\* and in whatever order the workers finish, there are exactly K results, all
\* of role tool, one per request, each with the id and the name of its
\* request; and before that no request has two results.
C9_OneResultPerRequest ==
    /\ pc \in {"sequential", "pool", "append"} =>
           /\ Len(tool_call_outputs) <= Len(Batch)
           /\ \A i \in DOMAIN Batch : Cardinality(ResultsOf(i)) <= 1
    /\ pc = "append" =>
           /\ Len(tool_call_outputs) = Len(Batch)
           /\ \A j \in DOMAIN tool_call_outputs : tool_call_outputs[j].role = "tool"
           /\ \A i \in DOMAIN Batch :
                 /\ Cardinality(ResultsOf(i)) = 1
                 /\ \A j \in ResultsOf(i) :
                        tool_call_outputs[j].name = Batch[i].function.name

C9_Witness ==
    /\ pc = "append" /\ concurrent_tool_execution /\ Len(Batch) = 2
    /\ tool_call_outputs[1].tool_call_id = Batch[2].id
    /\ tool_call_outputs[2].tool_call_id = Batch[1].id
    /\ Batch[1].function.name # Batch[2].function.name

\* A request fails: its arguments do not parse, or its tool is missing or
\* raises.
Fails(tc) ==
    \/ tc.function.arguments = BadArguments
    \/ tc.function.name \in {"boom", "ghost"}

\* The contents that are an error object: {"error": ..., "message": ...}.
ErrorPayloads ==
    { ErrorPayload(e, t) :
          e \in {"Expecting property name", "boom failed", "Tool 'ghost' not found."},
          t \in {"Failed to parse arguments", "Tool execution failed"} }

\* What each working tool answers, as the model is to read it.
RealOutput(name) == IF name = "add" THEN "5" ELSE "hi"

\* C10: in a dispatched batch a failing request's result carries the error
\* object and every other request's result the output of its own tool,
\* whatever the other requests did and however the workers interleaved.
C10_FailureIsolated ==
    pc = "append" =>
        \A i \in DOMAIN Batch :
            /\ ResultsOf(i) # {}
            /\ \A j \in ResultsOf(i) :
                  IF Fails(Batch[i])
                  THEN tool_call_outputs[j].content \in ErrorPayloads
                  ELSE tool_call_outputs[j].content =
                           RealOutput(Batch[i].function.name)

C10_Witness ==
    /\ pc = "append" /\ concurrent_tool_execution /\ Len(Batch) = 2
    /\ Batch[1].function.name = "boom" /\ Batch[2].function.name = "echo"
    /\ tool_call_outputs[1].tool_call_id = Batch[1].id
    /\ tool_call_outputs[1].content \in ErrorPayloads
    /\ tool_call_outputs[2].content = "hi"

\* ---------------------------------------------------------------------- C11
\* The assistant messages of the transcript that request tool calls.
ToolTurns(msgs) ==
    { a \in OfRole(msgs, "assistant") : "tool_calls" \in DOMAIN msgs[a] }

\* The requests of the run so far: those of the transcript's assistant
\* messages and those of the turn being dispatched.
Requested ==
    { Batch[i] : i \in DOMAIN Batch }
    \cup UNION { { messages[a].tool_calls[i] : i \in DOMAIN messages[a].tool_calls } :
                    a \in ToolTurns(messages) }

\* The messages the step appends to the transcript.
Appended == { j \in DOMAIN messages' : j > Len(messages) }

\* The step that ends a dispatched batch: the loop goes on to its next test,
\* and each failing request has left a tool-role message with an error
\* object under its id.
C11_BatchStep ==
    pc = "append" =>
        /\ pc' = "while"
        /\ \A i \in DOMAIN Batch :
               Fails(Batch[i]) =>
                   \E j \in Appended :
                       /\ messages'[j].role = "tool"
                       /\ messages'[j].tool_call_id = Batch[i].id
                       /\ messages'[j].content \in ErrorPayloads

\* C11: a request with unparsable arguments, with an unregistered name or
\* with a raising tool never makes the run raise; no tool is invoked for a
\* request whose arguments do not parse (nor for an unregistered name); and
\* the batch ends in a tool-role message with an error object for each such
\* request, after which the loop continues.
C11_FailureBecomesMessage ==
    /\ [](issued > 0 => pc # "raised")
    /\ [](\A tc \in Requested :
             (tc.function.arguments = BadArguments \/ tc.function.name = "ghost")
                 => tc.id \notin invoked)
    /\ [][C11_BatchStep]_vars

\* A second model call is made after a batch with an unparsable request, a
\* raising tool's request, and no tool invoked for the former.
C11_Witness ==
    /\ Len(completions) = 2
    /\ \E tc \in Requested : tc.function.arguments = BadArguments
    /\ \E tc \in Requested : tc.function.name = "boom" /\ tc.id \in invoked
    /\ \E j \in DOMAIN messages :
           messages[j].role = "tool" /\ messages[j].content \in ErrorPayloads

\* ---------------------------------------------------------------------- C12
\* The tool-role messages after position a that answer the request id.
AnswersOf(msgs, a, id) ==
    { j \in DOMAIN msgs :
          j > a /\ msgs[j].role = "tool" /\ msgs[j].tool_call_id = id }

\* While a batch is being executed the transcript is not touched, and the
\* step that ends it appends the assistant message and then one tool-role
\* message per request, nothing else.
C12_DispatchStep ==
    /\ pc \in {"sequential", "pool"} => messages' = messages
    /\ pc = "append" =>
           /\ Len(tool_call_outputs) = Len(Batch)
           /\ Len(messages') = Len(messages) + 1 + Len(Batch)
           /\ SubSeq(messages', 1, Len(messages)) = messages
           /\ messages'[Len(messages) + 1].role = "assistant"
           /\ messages'[Len(messages) + 1].tool_calls = Batch
           /\ \A j \in Appended : j > Len(messages) + 1 => messages'[j].role = "tool"
           /\ \A i \in DOMAIN Batch :
                  Cardinality(AnswersOf(messages', Len(messages) + 1, Batch[i].id)) = 1

\* C12: a tool turn extends the transcript by the assistant message followed
\* by one tool-role message per request, and only once the whole batch has
\* run; so whenever the model is called, every request of an assistant
\* message of the transcript has exactly one tool-role message after it.
C12_TranscriptPaired ==
    /\ [][C12_DispatchStep]_vars
    /\ [](\A a \in ToolTurns(messages) :
             \A i \in DOMAIN messages[a].tool_calls :
                 Cardinality(AnswersOf(messages, a, messages[a].tool_calls[i].id)) = 1)

\* The model is about to be called after a pooled batch of two requests
\* whose results came back in the other order.
C12_Witness ==
    /\ pc = "while" /\ steps < max_steps
    /\ \E a \in ToolTurns(messages) :
           /\ Len(messages[a].tool_calls) = 2
           /\ messages[a + 1].tool_call_id = messages[a].tool_calls[2].id
           /\ messages[a + 2].tool_call_id = messages[a].tool_calls[1].id

\* ---------------------------------------------------------------------- C13
\* The batch of the turn runs in a pool.
Pooled == concurrent_tool_execution /\ Len(Batch) > 1

\* The ids of the first n requests of the batch.
FirstIds(n) == { Batch[i].id : i \in 1..n }

\* C13: a batch of one request, or any batch with concurrent execution off,
\* is run without a pool, one request a step and in request order; a batch
\* of K > 1 requests with concurrent execution on runs in a pool made for it
\* with K workers, so that no request waits for another, and the pool is
\* gone, every future yielded, before the transcript is extended and the
\* model called again.
C13_PoolPerBatch ==
    /\ [](pc = "sequential" => ~Pooled)
    /\ []((pc \in {"sequential", "append"} /\ ~Pooled) =>
             /\ \A j \in DOMAIN tool_call_outputs :
                    tool_call_outputs[j].tool_call_id = Batch[j].id
             /\ invoked \cap FirstIds(Len(Batch)) \subseteq
                    FirstIds(Len(tool_call_outputs)))
    /\ [](pc = "pool" =>
             /\ Pooled
             /\ MaxWorkers(Batch) = Len(Batch)
             /\ Len(futures) = Len(Batch)
             /\ \A i \in DOMAIN futures :
                    futures[i].state = "pending" => HasWorker(i))
    /\ [](pc # "pool" => futures = << >>)
    /\ [][(pc = "pool" /\ pc' # "pool") =>
              /\ pc' = "append"
              /\ \A i \in DOMAIN futures : futures[i].state = "yielded"
              /\ Len(tool_call_outputs) = Len(Batch)]_vars

\* The second request of a pooled batch of two has finished while the first
\* is still to run.
C13_Witness ==
    /\ pc = "pool" /\ Len(Batch) = 2
    /\ futures[1].state = "pending" /\ futures[2].state = "done"

\* ---------------------------------------------------------------------- C14
\* The names that two of the tools given to the Agent share.
Collisions ==
    LET combined == CombinedTools(tools, sub_agents)
    IN  { combined[i].name : i \in { i \in DOMAIN combined :
              \E j \in DOMAIN combined : j # i /\ combined[j].name = combined[i].name } }

\* C14: once an Agent was constructed with two tools of one name (two local
\* tools, a local tool and a sub-agent's delegate, or two delegates), the
\* construction has failed and neither tool is registered.
C14_CollisionRejected ==
    (constructed # "no" /\ Collisions # {}) =>
        /\ constructed = "raised"
        /\ \A n \in Collisions : n \notin DOMAIN self_tool_maps

\* ---------------------------------------------------------------------- C15
\* C15: a load_tools call in which a second server exposed a tool name that
\* an earlier server had registered has failed: it has not returned an
\* aggregate, and the cache does not hold one from it.
C15_CollisionIsFatal ==
    \A p \in Tasks :
        task[p].collided =>
            /\ task[p].pc # "returned"
            /\ task[p].result = << >>
            /\ _tool_cache = << >>

\* ---------------------------------------------------------------------- C16
\* The step in which a task begins to connect to the server its loop is at.
BeginsToConnect(p) == task[p].pc = "loop" /\ task'[p].pc = "connecting"

\* C16: a server that has failed failure_threshold times is not connected to
\* while its backoff window lasts, and every load_tools call made after the
\* window, the server being due, has attempted it by the time it returns.
C16_BackoffThenRetry ==
    /\ [][\A p \in Tasks :
              BeginsToConnect(p) =>
                  ~(/\ Get(_failure_counts, ServerOf(p), 0) >= _failure_threshold
                    /\ ServerOf(p) \in DOMAIN _skip_until
                    /\ clock < _skip_until[ServerOf(p)])]_vars
    /\ [](\A p \in Tasks :
             task[p].pc = "returned" => task[p].due \subseteq task[p].attempted)

\* ---------------------------------------------------------------------- C17
\* C17: whenever a load_tools call begins to connect to a server, in any
\* interleaving of the calls, of add_servers and of the clock, the server
\* has no skip_until or the clock has reached it.
C17_NoAttemptInCooldown ==
    [][\A p \in Tasks :
           BeginsToConnect(p) =>
               (ServerOf(p) \in DOMAIN _skip_until =>
                    clock >= _skip_until[ServerOf(p)])]_vars

\* A call is connecting to a server whose backoff window is over.
C17_Witness ==
    \E p \in Tasks :
        /\ task[p].pc = "connecting"
        /\ ServerOf(p) \in DOMAIN _skip_until
        /\ clock >= _skip_until[ServerOf(p)]

\* ---------------------------------------------------------------------- C18
\* The step in which the connection a task waits for fails.
ConnectionFails(p) == task[p].pc = "connecting" /\ task'[p].pc = "loop"

\* The server's entry in the dict is what it was.
SameEntry(d, e, s) ==
    /\ (s \in DOMAIN d) = (s \in DOMAIN e)
    /\ s \in DOMAIN d => d[s] = e[s]

\* C18: a connection failure adds exactly 1 to the failure count of that
\* server and touches no other server's count or skip_until; skip_until of
\* the server becomes now + backoff_seconds if the new count has reached the
\* threshold and is left as it was if not; the call goes on with the next
\* server, its aggregate untouched.
C18_FailureCounted ==
    [][\A p \in Tasks :
           ConnectionFails(p) =>
               LET s == ServerOf(p)
               IN  /\ s \in DOMAIN _failure_counts'
                   /\ _failure_counts'[s] = Get(_failure_counts, s, 0) + 1
                   /\ IF _failure_counts'[s] >= _failure_threshold
                      THEN /\ s \in DOMAIN _skip_until'
                           /\ _skip_until'[s] = clock + _backoff_seconds
                      ELSE SameEntry(_skip_until, _skip_until', s)
                   /\ \A o \in Servers \ {s} :
                          /\ SameEntry(_failure_counts, _failure_counts', o)
                          /\ SameEntry(_skip_until, _skip_until', o)
                   /\ task'[p].index = task[p].index + 1
                   /\ task'[p].all_schemas = task[p].all_schemas
                   /\ task'[p].all_mappings = task[p].all_mappings]_vars

\* Under a threshold of 2 a server has failed twice and is backed off, after
\* a first failure that left it without skip_until.
C18_Witness ==
    /\ _failure_threshold = 2
    /\ \E s \in Servers :
           /\ s \in DOMAIN _skip_until
           /\ s \in DOMAIN _failure_counts
           /\ _failure_counts[s] = 2

LoadFailsAfterConnect(p) ==
    /\ task[p].pc = "connected"
    /\ task'[p].pc = "loop"
    /\ ServerOf(p) \notin task'[p].loaded

\* C20: a failure after the connection (load_mcp_tools raising, or the
\* wrapping of the tools raising) changes no failure count and no skip_until,
\* and the call goes on with the next server.
C20_LoadFailureNotCounted ==
    [][\A p \in Tasks :
           LoadFailsAfterConnect(p) =>
               /\ _failure_counts' = _failure_counts
               /\ _skip_until' = _skip_until
               /\ task'[p].index = task[p].index + 1
               /\ task'[p].pc = "loop"]_vars

\* A call has returned after its first server failed past the connection,
\* that server still carrying the failure count another call gave it, and
\* after its second server was loaded.
C20_Witness ==
    \E p \in Tasks :
        /\ task[p].pc = "returned"
        /\ Len(_servers) = 2
        /\ _servers[1] \in task[p].attempted
        /\ _servers[1] \notin task[p].failed \cup task[p].loaded
        /\ _servers[1] \in DOMAIN _failure_counts
        /\ _servers[2] \in task[p].loaded

\* ---------------------------------------------------------------------- C21
\* The servers a call connected to and then failed to load.
FailedAfterConnect(p) ==
    task[p].attempted \ (task[p].failed \cup task[p].loaded)

\* The servers whose schemas or wrappers the aggregate holds.
ServersIn(aggregate) ==
    { aggregate.all_schemas[i].server : i \in DOMAIN aggregate.all_schemas }
    \cup { aggregate.all_mappings[n] : n \in DOMAIN aggregate.all_mappings }

\* The aggregate holds every tool of a listing of the server.
HoldsToolsOf(aggregate, s) ==
    \E listing \in Listings(s) :
        \A i \in DOMAIN listing :
            /\ listing[i] \in DOMAIN aggregate.all_mappings
            /\ aggregate.all_mappings[listing[i]] = s
            /\ \E j \in DOMAIN aggregate.all_schemas :
                   aggregate.all_schemas[j] = [name |-> listing[i], server |-> s]

\* C21: the aggregate a load_tools call has computed, returned and cached
\* holds no schema and no wrapper of a server whose load failed after the
\* connection, and holds the tools of every server the call loaded.
C21_FailedServerOmitted ==
    \A p \in Tasks :
        (task[p].pc = "returned" /\ task[p].attempted # {}) =>
            /\ ServersIn(task[p].result[1]) \cap FailedAfterConnect(p) = {}
            /\ \A s \in task[p].loaded : HoldsToolsOf(task[p].result[1], s)

\* ---------------------------------------------------------------------- C22
\* add_servers has been called once, with one server: every call that has
\* begun a connection was made after it.
OneAddSoFar == Len(_servers) = 1

\* Of the load_tools calls made after an add_servers, and before the next,
\* only one, the first, has begun a connection: the others returned its
\* aggregate.
C22_OnlyFirstCallConnects ==
    OneAddSoFar =>
        \A p \in Tasks, q \in Tasks :
            p # q => (task[p].attempted = {} \/ task[q].attempted = {})

\* The step in which task p calls load_tools.
Calls(p) == loads' = loads + 1 /\ task'[p] # task[p]

\* The step in which task p leaves the loop of load_tools and returns.
Returns(p) == task[p].pc = "loop" /\ task'[p].pc = "returned"

\* A load_tools call made while the cache holds an aggregate returns that
\* aggregate at once; one made while it is empty enters the loop with an
\* empty aggregate of its own.
C22_CallStep ==
    \A p \in Tasks :
        Calls(p) =>
            /\ _tool_cache' = _tool_cache
            /\ _tool_cache # << >> =>
                   /\ task'[p].pc = "returned"
                   /\ task'[p].result = _tool_cache
                   /\ task'[p].attempted = {}
            /\ (_tool_cache = << >> /\ _servers # << >>) =>
                   /\ task'[p].pc = "loop"
                   /\ task'[p].index = 1
                   /\ task'[p].all_schemas = << >>
                   /\ task'[p].all_mappings = EmptyDict

\* The cache is emptied by add_servers and filled only by a call that has
\* been through every configured server and returns what it has computed.
C22_CacheStep ==
    /\ _servers' # _servers => _tool_cache' = << >>
    /\ (_servers' = _servers /\ _tool_cache' # _tool_cache) =>
           \E p \in Tasks :
               /\ Returns(p)
               /\ task[p].index = Len(_servers) + 1
               /\ _tool_cache' = task'[p].result
               /\ _tool_cache' = << [all_schemas |-> task[p].all_schemas,
                                     all_mappings |-> task[p].all_mappings] >>

\* The loop passes a server without connecting only while the clock is short
\* of the server's skip_until.
C22_VisitStep ==
    \A p \in Tasks :
        (task[p].pc = "loop" /\ task'[p].pc = "loop"
             /\ task'[p].index = task[p].index + 1) =>
            /\ ServerOf(p) \in DOMAIN _skip_until
            /\ clock < _skip_until[ServerOf(p)]

\* C22: a load_tools call made once an earlier call has returned, and before
\* the next add_servers, returns the cached aggregate without a connection
\* attempt; add_servers empties the cache; a call that finds it empty computes
\* a new aggregate, connecting to every configured server that is not in its
\* cooldown, and its return fills the cache.
C22_Memoized ==
    /\ [][C22_CallStep]_vars
    /\ [][C22_CacheStep]_vars
    /\ [][C22_VisitStep]_vars

\* One call has computed the aggregate of a server and another has been
\* answered from the cache with it.
C22_Witness ==
    \E p \in Tasks, q \in Tasks :
        /\ p # q
        /\ task[p].pc = "returned" /\ task[q].pc = "returned"
        /\ task[p].loaded # {}
        /\ task[q].attempted = {}
        /\ task[q].result = task[p].result
        /\ _tool_cache = task[q].result

\* C24: at every moment the open load connections plus the open
\* tool-invocation connections of one manager number at most
\* max_parallel_calls.
C24_GuardIsCeiling == Cardinality(connections) <= max_parallel_calls

\* C27: under every interleaving of concurrent load_tools calls, a server's
\* failure count equals the number of connection failures recorded for it
\* since its last successful load: no increment is lost.
C27_NoIncrementLost ==
    \A s \in Servers : Get(_failure_counts, s, 0) = recorded[s]

\* Two overlapping load_tools calls have both recorded a connection failure
\* of the same server.
C27_Witness ==
    \E s \in Servers :
        /\ recorded[s] = 2
        /\ \A p \in Tasks : s \in task[p].failed /\ task[p].pc \in {"loop", "connecting", "connected"}

\* The wrapper calls that hold an open connection.
Connected == { c \in Invokers : \E k \in connections : k.by = c }

\* The wrapper calls that wait for a permit.
Waiting == { c \in Invokers : call[c].pc \in {"waiting", "woken"} }

\* C23: in every interleaving of wrapper calls, at most max_parallel_calls
\* of them hold an open connection; a call beyond the limit waits, holds no
\* connection while it waits, and leaves the queue in the end, given that the
\* running calls finish.
C23_Throttled ==
    /\ [](/\ Cardinality(Connected) <= max_parallel_calls
          /\ Waiting \cap Connected = {})
    /\ \A c \in Invokers : (c \in Waiting) ~> (c \notin Waiting)

\* One call holds an open connection while another waits for a permit.
C23_Witness ==
    \E c, d \in Invokers : c \in Connected /\ call[d].pc = "waiting"

\* The wrapper calls that hold a permit.
Holders ==
    { c \in Invokers : call[c].pc \in {"woken", "acquired", "connected", "session"} }

\* C25: a wrapper call holds a permit whenever it has a connection open, and
\* every permit taken is given back on each exit: the free permits and the
\* permits held add up to max_parallel_calls, so that when no call is in
\* progress all max_parallel_calls permits are free.
C25_NoPermitLeaked ==
    /\ Connected \subseteq Holders
    /\ _semaphore + Cardinality(Holders) = max_parallel_calls
    /\ (\A c \in Invokers : call[c].pc \in {"idle", "returned", "raised"})
           => _semaphore = max_parallel_calls

\* Two calls have finished, one by returning and one by raising.
C25_Witness ==
    /\ \E c, d \in Invokers : call[c].pc = "returned" /\ call[d].pc = "raised"
    /\ invocations >= 2

\* C26: every open connection belongs to exactly one operation that is in
\* progress, a load_tools visit of the server or a wrapper call to it, and
\* each such operation has a connection of its own; once the operation has
\* returned or raised, no connection of it is left open.
C26_OwnConnectionClosedAtEnd ==
    /\ \A k \in connections :
           \/ /\ k.by \in Tasks
              /\ task[k.by].pc = "connected"
              /\ k.to = ServerOf(k.by)
           \/ /\ k.by \in Invokers
              /\ call[k.by].pc \in {"connected", "session"}
              /\ k.to = call[k.by].server
    /\ \A p \in Tasks :
           task[p].pc = "connected" =>
               [by |-> p, to |-> ServerOf(p)] \in connections
    /\ \A c \in Invokers :
           call[c].pc \in {"connected", "session"} =>
               [by |-> c, to |-> call[c].server] \in connections

\* A load_tools call and a wrapper call have connections open to the same
\* server, and another wrapper call has ended.
C26_Witness ==
    \E p \in Tasks, c, d \in Invokers :
        /\ [by |-> p, to |-> call[c].server] \in connections
        /\ [by |-> c, to |-> call[c].server] \in connections
        /\ call[d].pc \in {"returned", "raised"}

\* The ids of the descriptors in a list.
IdsOf(descriptors) == [i \in DOMAIN descriptors |-> descriptors[i].id]

\* No value occurs twice in the sequence.
PairwiseDistinct(seq) ==
    \A i, j \in DOMAIN seq : i # j => seq[i] # seq[j]

\* C28: the ids of all servers of one manager, generated within one
\* normalize_mcp_servers call or by several calls, are pairwise distinct.
C28_IdsUnique ==
    /\ PairwiseDistinct(_servers)
    /\ PairwiseDistinct(IdsOf(normalization.normalized))
    /\ PairwiseDistinct(IdsOf(normalization.result))

\* The transport a configuration stands for: stdio when it names none.
TransportOf(server) ==
    IF "transport" \in DOMAIN server THEN server.transport ELSE "stdio"

\* The configuration lacks a field its transport requires, or names a
\* transport that does not exist.
Misconfigured(server) ==
    \/ TransportOf(server) = "stdio" /\ {"command", "args"} \ DOMAIN server # {}
    \/ TransportOf(server) = "sse" /\ "url" \notin DOMAIN server
    \/ TransportOf(server) \notin {"stdio", "sse"}

\* C29: normalize_mcp_servers raises at the first configuration that lacks a
\* required field of its transport or names an unknown transport, and then
\* returns nothing, not even the valid entries before it; it returns only
\* when no configuration is at fault, each entry with the transport it
\* names, stdio when it names none.
C29_MisconfigurationRaises ==
    LET n == normalization
    IN  /\ n.pc = "raised" =>
               /\ Misconfigured(n.servers[n.index])
               /\ \A i \in 1..(n.index - 1) : ~Misconfigured(n.servers[i])
               /\ n.result = << >> /\ n.normalized = << >>
        /\ n.pc = "loop" =>
               /\ \A i \in 1..(n.index - 1) : ~Misconfigured(n.servers[i])
               /\ Len(n.normalized) = n.index - 1
               /\ \A i \in DOMAIN n.normalized :
                      n.normalized[i].transport = TransportOf(n.servers[i])
        /\ n.pc = "returned" => Len(n.result) = Len(n.servers)

\* normalize_mcp_servers has raised at a second entry that names no
\* transport and has no command, after a valid first entry.
C29_Witness ==
    /\ normalization.pc = "raised"
    /\ normalization.index = 2
    /\ "transport" \notin DOMAIN normalization.servers[2]

\* The names of the fields declared with no default, no default factory and
\* a type that is not optional.
RequiredFields ==
    { py_type[i].name :
          i \in { k \in DOMAIN py_type : /\ py_type[k].default = MISSING
                                        /\ py_type[k].default_factory = MISSING
                                        /\ py_type[k].type # "Optional[int]" } }

\* C30: the required list of a dataclass's compiled schema holds exactly the
\* names of its fields with no default, no default factory and a
\* non-optional type, in sorted order and each once.
C30_RequiredExact ==
    compiled # << >> =>
        compiled[1].required =
            SelectSeq(FieldNames, LAMBDA name : name \in RequiredFields)

\* The types Python keeps apart from the None of an optional declaration:
\* not None itself and not a union, whose members it merges with None.
Separate(T) == T.origin \notin {"NoneType", "Union", "UnionType"}

\* C31: for every type T that Python keeps apart from None and every way of
\* declaring optional T, the compiled schema is anyOf of the schema of T
\* alone and the null schema.
C31_OptionalIsAnyOf ==
    (compiled # << >> /\ py_type.way # "T" /\ Separate(py_type.of)) =>
        LET alone == TypeSchema(py_type.of, 1)
        IN  \/ alone.raised
            \/ compiled[1] = Returned([anyOf |-> << alone.schema, [type |-> "null"] >>])

\* C32: for every declaration map_type_to_schema returns a schema and does
\* not raise, self-referential declarations included.
C32_NeverRaises ==
    compiled # << >> => ~compiled[1].raised

\* The tool names of a schema list, in order.
NamesOf(all_schemas) == [i \in DOMAIN all_schemas |-> all_schemas[i].name]

\* The names of the schemas differ pairwise and are the keys of the
\* invocable map.
Matched(aggregate) ==
    /\ PairwiseDistinct(NamesOf(aggregate.all_schemas))
    /\ Range(NamesOf(aggregate.all_schemas)) = DOMAIN aggregate.all_mappings

\* C34: in the aggregate a load_tools call has returned, and in the cached
\* aggregate, the schemas' tool names are pairwise distinct and are exactly
\* the keys of the invocable map.
C34_SchemasMatchInvocables ==
    /\ \A p \in Tasks : task[p].pc = "returned" => Matched(task[p].result[1])
    /\ _tool_cache # << >> => Matched(_tool_cache[1])

\* C35, as claimed: while the cache holds the aggregate of a call in which a
\* server failed to connect, no load_tools call begins a connection to that
\* server.
C35_NoAttemptOnceCached ==
    [][\A p \in Tasks, q \in Tasks :
           (/\ BeginsToConnect(p)
            /\ _tool_cache # << >>
            /\ task[q].pc = "returned"
            /\ task[q].result = _tool_cache) =>
               ServerOf(p) \notin task[q].failed]_vars

\* A load_tools call made while the cache holds an aggregate attempts no
\* connection and returns the servers of that aggregate, whatever the clock
\* and the failure table say; the passing of time leaves the cache alone;
\* and an aggregate in the cache is replaced only through add_servers or by
\* the return of a call that was in its loop already.
C35_Step ==
    /\ \A p \in Tasks :
           (Calls(p) /\ _tool_cache # << >>) =>
               /\ task'[p].pc = "returned"
               /\ task'[p].attempted = {}
               /\ ServersIn(task'[p].result[1]) = ServersIn(_tool_cache[1])
    /\ clock' # clock => _tool_cache' = _tool_cache
    /\ (_tool_cache # << >> /\ _tool_cache' # _tool_cache) =>
           \/ _servers' # _servers
           \/ \E p \in Tasks : Returns(p)

\* C35: a server missing from the cached aggregate stays missing from the
\* result of every load_tools call made while that aggregate is cached, and
\* gets no connection attempt from such a call, until add_servers empties
\* the cache, even when its cooldown window has run out.
C35_StaleUntilAddServers == [][C35_Step]_vars

\* A call was answered from the cache although a server that is missing from
\* the aggregate was past its backoff window when the call was made.
C35_Witness ==
    \E p \in Tasks :
        /\ task[p].pc = "returned"
        /\ task[p].attempted = {}
        /\ \E s \in task[p].due : s \notin ServersIn(task[p].result[1])

\* A failure count goes down only in the step that loads the server; a
\* connection failure of a server whose count has reached the threshold
\* raises the count and starts a backoff window from the present.
C36_Step ==
    /\ \A s \in Servers :
           Get(_failure_counts', s, 0) < Get(_failure_counts, s, 0) =>
               \E p \in Tasks :
                   /\ task[p].pc = "connected"
                   /\ ServerOf(p) = s
                   /\ s \in task'[p].loaded
    /\ \A p \in Tasks :
           (ConnectionFails(p)
                /\ Get(_failure_counts, ServerOf(p), 0) >= _failure_threshold) =>
               /\ _failure_counts'[ServerOf(p)] = _failure_counts[ServerOf(p)] + 1
               /\ _skip_until'[ServerOf(p)] = clock + _backoff_seconds

\* C36: a failure count goes down only by a successful load of the server,
\* never with the clock; and a connection failure of a server whose count
\* has already reached failure_threshold starts a new backoff window at once.
C36_CountOutlivesCooldown == [][C36_Step]_vars

\* A server attempted after its backoff window has failed once more: its
\* count is above the threshold and it is in a window that the first one
\* could not have reached.
C36_Witness ==
    \E s \in Servers :
        /\ Get(_failure_counts, s, 0) > _failure_threshold
        /\ InCooldown(s, clock)
        /\ clock > 0

\* A step of a wrapper call leaves the failure counts, the skip_until
\* entries and the cache as they are, and a call that holds a permit goes on
\* to its connection or to its connection's failure.
C37_Step ==
    call' # call =>
        /\ UNCHANGED << _failure_counts, _skip_until, _tool_cache >>
        /\ \A c \in Invokers :
               call[c].pc = "acquired" =>
                   call'[c].pc \in {"acquired", "connected", "raised"}

\* C37: no step of a tool_wrapper call changes a failure count, a
\* skip_until or the tool cache, and a wrapper opens its connection whether
\* or not its server is in cooldown.
C37_CallsLeaveTableAlone == [][C37_Step]_vars

\* A wrapper call holds an open connection to a server that is in cooldown.
C37_Witness ==
    \E c \in Invokers :
        /\ call[c].pc = "connected"
        /\ InCooldown(call[c].server, clock)

\* The reply at hand has no tool calls and a finish reason that is neither
\* stop nor tool_calls.
OtherReply ==
    /\ pc = "reply"
    /\ message[1].tool_calls = << >>
    /\ finish_reason \notin {"stop", "tool_calls"}

\* C38: a reply without tool calls whose finish reason is neither stop nor
\* tool_calls adds nothing to the transcript, costs exactly one step and no
\* further model call of its own, and leads back to the loop test; the model
\* call that follows is made with the transcript as it stands, which is the
\* one the call before it was made with.
C38_OtherReplyDropped ==
    /\ [][OtherReply =>
              /\ messages' = messages
              /\ steps' = steps + 1
              /\ completions' = completions
              /\ pc' = "while"
              /\ result' = result]_vars
    /\ [][(pc = "while" /\ pc' = "reply") =>
              /\ messages' = messages
              /\ Len(completions') = Len(completions) + 1]_vars

\* A second model call has been made with the two messages of the first,
\* one step having been spent.
C38_Witness ==
    /\ pc = "reply"
    /\ steps = 1
    /\ Len(completions) = 2
    /\ Len(messages) = 2

\* ------------------------------------------------------------ BaseWorkflow
\* The calls of agent.run that the workflow's run() makes in one call of
\* execute, run_stream or arun are at most MaxAgentRuns.

\* ExecutionContext.set_mode
set_mode(w, is_async, is_streaming) ==
    [w EXCEPT !.mode = IF is_async /\ is_streaming THEN "async_stream"
                       ELSE IF is_async THEN "async"
                       ELSE IF is_streaming THEN "stream"
                       ELSE "sync"]

\* self._pending_chunks.clear()
clear(w) == [w EXCEPT !._pending_chunks = << >>]

\* BaseWorkflow._setup_agents: done once; self._agents becomes the `agents`
\* registry of the subclass.
_setup_agents(w) ==
    IF w._agents_setup
    THEN w
    ELSE [w EXCEPT !._agents = "agents", !._agents_setup = TRUE]

\* BaseWorkflow._replace_agents_with_proxies: nothing without self._agents;
\* else, unless the originals are already stored, every field holding an
\* Agent is stored and given an AgentProxy.
_replace_agents_with_proxies(w) ==
    IF w._agents = None
    THEN w
    ELSE IF w._original_agents_data # << >>
    THEN w
    ELSE LET found == {f \in AgentFields : w.agents[f] = "Agent"}
         IN  [w EXCEPT !._original_agents_data = << found >>,
                       !.agents = [f \in AgentFields |->
                                       IF f \in found THEN "AgentProxy"
                                       ELSE w.agents[f]]]

\* As _restore_original_agents, but the registry is left as it is.
_restore_original_agentsNever(w) == w

\* BaseWorkflow._restore_original_agents: the stored originals are put back
\* and the attribute holding them is deleted.
_restore_original_agents(w) ==
    IF w._agents = None \/ w._original_agents_data = << >>
    THEN w
    ELSE [w EXCEPT !.agents = [f \in AgentFields |->
                                   IF f \in w._original_agents_data[1]
                                   THEN "Agent"
                                   ELSE w.agents[f]],
                   !._original_agents_data = << >>]

\* The finally block of execute and run_stream, and that of arun, which
\* does not clear the pending chunks.
Finally(method, w) ==
    IF method = "arun"
    THEN set_mode(_restore_original_agents(w), FALSE, FALSE)
    ELSE clear(set_mode(_restore_original_agents(w), FALSE, FALSE))

\* No call of execute, run_stream or arun is being made.
Callable == activation.pc \in {"idle", "returned", "raised"}

\* A call begins: it is in the workflow's run().
Running(method) ==
    [method |-> method, pc |-> "running", calls |-> << >>, yielded |-> 0]

\* BaseWorkflow.execute up to its call of self.run.
Execute ==
    /\ Callable
    /\ workflow' = _replace_agents_with_proxies(
                       _setup_agents(clear(set_mode(workflow, FALSE, FALSE))))
    /\ activation' = Running("execute")
    /\ UNCHANGED << run_vars, registry, remote, normalization, py_type,
                    compiled, files, added >>

\* The first next() of a BaseWorkflow.run_stream generator, up to its call
\* of self.run.
RunStream ==
    /\ Callable
    /\ workflow' = _replace_agents_with_proxies(
                       _setup_agents(clear(set_mode(workflow, FALSE, TRUE))))
    /\ activation' = Running("run_stream")
    /\ UNCHANGED << run_vars, registry, remote, normalization, py_type,
                    compiled, files, added >>

\* BaseWorkflow.arun up to its call of self.run: _setup_agents is not
\* called.
Arun ==
    /\ Callable
    /\ workflow' = _replace_agents_with_proxies(
                       set_mode(workflow, TRUE, FALSE))
    /\ activation' = Running("arun")
    /\ UNCHANGED << run_vars, registry, remote, normalization, py_type,
                    compiled, files, added >>

\* BaseWorkflow.list_agents, called between the calls above.
ListAgents ==
    /\ Callable
    /\ ~workflow._agents_setup
    /\ workflow' = _setup_agents(workflow)
    /\ UNCHANGED << run_vars, registry, remote, normalization, py_type,
                    compiled, activation, files, added >>

\* run() calls self.agents.<f>.run(..., stream=stream). A field holding an
\* AgentProxy has AgentProxy.run act on the execution context's mode: in
\* mode stream, unless the caller asked for the stream, the chunks of the
\* agent are appended to the workflow's pending chunks. A field holding the
\* Agent runs Agent.run, which is synchronous.
AgentRun(f, stream) ==
    /\ activation.pc = "running"
    /\ Len(activation.calls) < MaxAgentRuns
    /\ IF workflow.agents[f] = "AgentProxy"
       THEN /\ activation' =
                   [activation EXCEPT !.calls =
                       Append(@, [agent |-> f, via |-> "AgentProxy",
                                  mode |-> workflow.mode])]
            /\ workflow' =
                   IF workflow.mode = "stream" /\ ~stream
                   THEN [workflow EXCEPT !._pending_chunks = Append(@, f)]
                   ELSE workflow
       ELSE /\ activation' =
                   [activation EXCEPT !.calls =
                       Append(@, [agent |-> f, via |-> "Agent",
                                  mode |-> "sync"])]
            /\ workflow' = workflow
    /\ UNCHANGED << run_vars, registry, remote, normalization, py_type,
                    compiled, files, added >>

\* run() returns: execute and arun go through their finally block and
\* return; run_stream goes on to yield the pending chunks.
RunReturns ==
    /\ activation.pc = "running"
    /\ IF activation.method = "run_stream"
       THEN /\ activation' = [activation EXCEPT !.pc = "yielding"]
            /\ workflow' = workflow
       ELSE /\ activation' = [activation EXCEPT !.pc = "returned"]
            /\ workflow' = Finally(activation.method, workflow)
    /\ UNCHANGED << run_vars, registry, remote, normalization, py_type,
                    compiled, files, added >>

\* run() raises: the finally block is gone through and the exception is
\* raised as a WorkflowExecutionError.
RunRaises ==
    /\ activation.pc = "running"
    /\ activation' = [activation EXCEPT !.pc = "raised"]
    /\ workflow' = Finally(activation.method, workflow)
    /\ UNCHANGED << run_vars, registry, remote, normalization, py_type,
                    compiled, files, added >>

\* run_stream yields the next pending chunk.
StreamYield ==
    /\ activation.pc = "yielding"
    /\ activation.yielded < Len(workflow._pending_chunks)
    /\ activation' = [activation EXCEPT !.yielded = @ + 1]
    /\ UNCHANGED << run_vars, registry, remote, normalization, py_type,
                    compiled, workflow, files, added >>

\* The run_stream generator is exhausted: having yielded every pending
\* chunk (or the closing chunk when there was none), it goes through its
\* finally block.
StreamExhausted ==
    /\ activation.pc = "yielding"
    /\ activation.yielded = Len(workflow._pending_chunks)
    /\ activation' = [activation EXCEPT !.pc = "returned"]
    /\ workflow' = Finally(activation.method, workflow)
    /\ UNCHANGED << run_vars, registry, remote, normalization, py_type,
                    compiled, files, added >>

WorkflowNext ==
    \/ Execute
    \/ RunStream
    \/ Arun
    \/ ListAgents
    \/ \E f \in AgentFields, stream \in BOOLEAN : AgentRun(f, stream)
    \/ RunReturns
    \/ RunRaises
    \/ StreamYield
    \/ StreamExhausted

\* A workflow just built.
WorkflowInit ==
    /\ RunIdle
    /\ RegistryIdle
    /\ RemoteIdle
    /\ FunctionsIdle

SpecWorkflow == WorkflowInit /\ [][WorkflowNext]_vars

\* C33: during arun, every agent.run call that run() makes on a field of
\* the registry goes through an AgentProxy under the execution mode async,
\* arun being the first method called on the workflow or not.
C33_ArunIntercepts ==
    activation.method = "arun" =>
        \A i \in DOMAIN activation.calls :
            /\ activation.calls[i].via = "AgentProxy"
            /\ activation.calls[i].mode = "async"

\* Every field of the registry holds its Agent, the mode is sync and no
\* chunk is pending.
Clean ==
    /\ \A f \in AgentFields : workflow.agents[f] = "Agent"
    /\ workflow.mode = "sync"
    /\ workflow._pending_chunks = << >>

\* C39: once execute has returned or raised, or a run_stream generator has
\* been exhausted or has raised, every field of the registry holds the
\* original Agent, the execution mode is sync and the pending chunks are
\* empty, whatever calls run() made.
C39_RestoredAfterCall ==
    (/\ activation.method \in {"execute", "run_stream"}
     /\ activation.pc \in {"returned", "raised"}) => Clean

\* A run_stream generator is exhausted after run() ran its agents through
\* the proxies and the chunks they left pending were yielded.
C39_Witness ==
    /\ activation.method = "run_stream"
    /\ activation.pc = "returned"
    /\ activation.yielded = MaxAgentRuns
    /\ \A i \in DOMAIN activation.calls :
           activation.calls[i].via = "AgentProxy"

\* -------------------------------------------------------------- FileMemory
\* Conversation ids are strings of at most MaxIdLen characters, and at most
\* MaxMessages messages are added without being cleared.

\* The characters of the model's conversation ids.
Chars == {"u", "/"}

\* The conversation ids a caller may pass: the non-empty strings, as
\* sequences of characters.
ConversationIds == UNION {[1..n -> Chars] : n \in 1..MaxIdLen}

\* The messages a caller may add, without and with a timestamp.
Messages ==
    {[role |-> "user", content |-> "hello"],
     [role |-> "assistant", content |-> "bye", timestamp |-> "t0"]}

\* FileMemory.storage_dir
storage_dir == "./conversations"

\* str.isalnum on one character
isalnum(c) == c \in {"u", "1"}

\* The characters _get_file_path keeps.
Safe(c) == isalnum(c) \/ c \in {"-", "_", "."}

\* FileMemory._get_file_path: the id without the characters that are not
\* kept, in storage_dir, with the suffix .json.
_get_file_path(conversation_id) ==
    << storage_dir >> \o SelectSeq(conversation_id, Safe) \o << ".json" >>

\* FileMemory.get_messages: the list in the conversation's file, or an
\* empty list when there is no such file.
get_messages(conversation_id) ==
    LET file_path == _get_file_path(conversation_id)
    IN  IF file_path \notin DOMAIN files THEN << >> ELSE files[file_path]

\* The number of messages added and not cleared, over the ids of ids.
RECURSIVE Kept(_)
Kept(ids) ==
    IF ids = {}
    THEN 0
    ELSE LET id == CHOOSE i \in ids : TRUE
         IN  Len(added[id]) + Kept(ids \ {id})

\* FileMemory.add_message: the conversation's list is read, the message,
\* given a timestamp if it has none, is appended, and the list is written
\* to the conversation's file.
add_message(conversation_id, msg) ==
    /\ Kept(DOMAIN added) < MaxMessages
    /\ LET stamped == IF "timestamp" \in DOMAIN msg
                      THEN msg
                      ELSE [role |-> msg.role, content |-> msg.content,
                            timestamp |-> "now"]
       IN  files' = SetItem(files, _get_file_path(conversation_id),
                            Append(get_messages(conversation_id), stamped))
    /\ added' = SetItem(added, conversation_id,
                        Append(Get(added, conversation_id, << >>), msg))
    /\ UNCHANGED << run_vars, registry, remote, normalization, py_type,
                    compiled, workflow, activation >>

\* FileMemory.clear_conversation: the conversation's file, if there is
\* one, is removed.
clear_conversation(conversation_id) ==
    /\ files' = Pop(files, _get_file_path(conversation_id))
    /\ added' = Pop(added, conversation_id)
    /\ UNCHANGED << run_vars, registry, remote, normalization, py_type,
                    compiled, workflow, activation >>

MemoryNext ==
    \/ \E id \in ConversationIds, msg \in Messages : add_message(id, msg)
    \/ \E id \in ConversationIds : clear_conversation(id)

\* A FileMemory just built on an empty storage_dir.
MemoryInit ==
    /\ RunIdle
    /\ RegistryIdle
    /\ RemoteIdle
    /\ FunctionsIdle

SpecMemory == MemoryInit /\ [][MemoryNext]_vars

\* The contents of a list of messages.
ContentOf(ms) == [i \in DOMAIN ms |-> ms[i].content]

\* C40: conversations with distinct ids are isolated: get_messages(a)
\* returns the messages added under a since a was last cleared, in order,
\* whatever was added or cleared under any other id.
C40_ConversationsIsolated ==
    \A a \in ConversationIds :
        ContentOf(get_messages(a)) = ContentOf(Get(added, a, << >>))

====
